---- MODULE Spec2Model ----
(***************************************************************************)
(* Hover Annotations (Obsidian plugin): the note codec, the marker regex,  *)
(* the cursor resolver, the normalizer and the editor operations.          *)
(*                                                                         *)
(* Text is modelled character by character: a JavaScript string is a       *)
(* sequence of one-character strings, offsets are 0-based as in the code   *)
(* (the sequence index of offset o is o + 1).                              *)
(*                                                                         *)
(* Two builds of the plugin are in the tree: src/main.ts (v1.2.0) and the  *)
(* later source embedded in src/CHANGELOG.md (colors, normalizer, '|'      *)
(* escape).  Definitions carry the names of the later source; where        *)
(* main.ts differs, its variant carries the suffix _main.                  *)
(***************************************************************************)
EXTENDS Integers, Sequences, FiniteSets, TLC

VARIABLES
    build,      \* which source's codec runs: "main" (src/main.ts) or "changelog"
    note,       \* codec: the raw note handed to escapeDataNote
    encoded,    \* codec: escapeDataNote(note), once computed
    decoded,    \* codec: decodeDataNote(encoded), once computed
    pc,         \* the stage reached by the run (per specification)
    doc,        \* the text the normalizer or the editor works on
    prev,       \* normalizer: the text handed to the last pass
    normChanged, \* normalizer: the changed flag the last pass returned
    passes,     \* normalizer: passes done so far
    canonical,  \* normalizer: every marker of the first text was written by
                \* the plugin's own template with an escaped note
    cursor,     \* editor: the cursor, a position {line, ch}
    matches,    \* resolver: the spans [start, end) a full scan of doc met
    existing,   \* what findAnnotationAtCursor returned (resolver), the
                \* existingAnnotation the open context menu captured (editor)
    ui,         \* editor: "idle", "menu" (context menu open) or "modal"
    modal,      \* editor: the annotation the open AnnotationModal edits
    lastOp,     \* editor: the last replacement made: its kind and the
                \* resolved annotation it was made for (history)
    edits,      \* editor: replacements made so far
    selection,  \* editor: the selection, offsets {anchor, head}; the cursor is
                \* its head
    adding,     \* editor: what the open add dialog's onSubmit closure captured
    notice,     \* the last Notice shown, <<id>> or <<id, count>>
    lastUsedColor, \* AnnotationPlugin.lastUsedColor
    request,    \* editor: the last request of the user, the state it was made
                \* in and what became of it (history)
    decorations, \* live preview: the builder.add calls of the last
                \* buildDecorations, in order
    vault,      \* bulk normalization: the content of each Markdown file
    batch,      \* bulk normalization: where normalizeAllMarkdownFiles stands
                \* and its locals
    writes,     \* bulk normalization: the vault.modify calls made (history)
    snapshot,   \* bulk normalization: the vault when the execute phase
                \* started (history)
    tooltip,    \* the tooltip element: its is-visible class and its text
    reencoded,  \* codec: escapeDataNote(decoded), once computed
    viewport,   \* live preview: the first line the editor shows
    regexLastIndex, \* COMMENT_REGEX.lastIndex, as the last scan left it
    scan,       \* the last scan made through COMMENT_REGEX: the call, its
                \* arguments and its result (history)
    settings    \* AnnotationPlugin.settings (the default color)

codecVars == <<build, note, encoded, decoded>>
normVars == <<prev, normChanged, passes, canonical>>
resolveVars == <<cursor, matches, existing>>
editorVars == <<ui, modal, lastOp, edits>>
addVars == <<selection, adding, notice, lastUsedColor, request>>
bulkVars == <<vault, batch, writes, snapshot>>
pluginVars == <<tooltip, reencoded, viewport, regexLastIndex, scan, settings>>
vars == <<build, note, encoded, decoded, pc, doc, prev, normChanged, passes, canonical,
          cursor, matches, existing, ui, modal, lastOp, edits,
          selection, adding, notice, lastUsedColor, request,
          decorations, vault, batch, writes, snapshot,
          tooltip, reencoded, viewport, regexLastIndex, scan, settings>>

(***************************************************************************)
(* Strings                                                                 *)
(***************************************************************************)

\* s.startsWith(lit, i - 1): lit occurs in s at sequence index i.
HasAt(s, i, lit) ==
    /\ i >= 1
    /\ i + Len(lit) - 1 <= Len(s)
    /\ \A k \in 1..Len(lit) : s[i + k - 1] = lit[k]

\* s.slice(i - 1): the suffix of s from sequence index i.
From(s, i) == SubSeq(s, i, Len(s))

\* The concatenation ss[lo] \o ... \o ss[hi] of a sequence of strings,
\* by halves (the order of the pieces is kept).
RECURSIVE Cat(_, _, _)
Cat(ss, lo, hi) ==
    IF lo > hi THEN <<>>
    ELSE IF lo = hi THEN ss[lo]
    ELSE LET mid == (lo + hi) \div 2
         IN  Cat(ss, lo, mid) \o Cat(ss, mid + 1, hi)

\* const x = v; F(x): v is computed once and F applied to its value.
Let(v, F(_)) == CHOOSE r \in {F(x) : x \in {v}} : TRUE

\* s.replace(/lit/g, rep) for a literal pattern.  The regex engine replaces
\* the occurrences it meets left to right, skipping any that overlaps the
\* previous one; every literal used here starts with a character that does
\* not occur again in it, so no two occurrences overlap and the replaced
\* occurrences are all of them.  Character i contributes rep where an
\* occurrence starts, nothing inside an occurrence, itself elsewhere.
ReplaceAll(s, lit, rep) ==
    LET inside(i) == \E k \in 1..(Len(lit) - 1) : HasAt(s, i - k, lit)
        piece == [i \in 1..Len(s) |->
                    IF HasAt(s, i, lit) THEN rep
                    ELSE IF inside(i) THEN <<>>
                    ELSE <<s[i]>>]
    IN  Cat(piece, 1, Len(s))

\* s.replace(/\r?\n/g, rep): every line feed is an occurrence, and it takes
\* the carriage return right before it, if there is one, with it.
ReplaceLineBreaks(s, rep) ==
    LET piece == [i \in 1..Len(s) |->
                    IF s[i] = "\n" THEN rep
                    ELSE IF s[i] = "\r" /\ i < Len(s) /\ s[i + 1] = "\n" THEN <<>>
                    ELSE <<s[i]>>]
    IN  Cat(piece, 1, Len(s))

\* s.includes(c) for one character.
Contains(s, c) == \E i \in 1..Len(s) : s[i] = c

\* The concatenation of a sequence of strings.
Flatten(ss) == Cat(ss, 1, Len(ss))

\* All sequences over S of length at most n.
SeqsUpTo(S, n) == UNION {[1..k -> S] : k \in 0..n}

(***************************************************************************)
(* Note codec                                                              *)
(***************************************************************************)

\* The grave accent (U+0060) cannot be written inside a TLA+ string; this
\* atom stands for that one character.
BT == "U+0060"

AMP  == <<"&", "a", "m", "p", ";">>
QUOT == <<"&", "q", "u", "o", "t", ";">>
LT   == <<"&", "l", "t", ";">>
GT   == <<"&", "g", "t", ";">>
N39  == <<"&", "#", "3", "9", ";">>
N96  == <<"&", "#", "9", "6", ";">>
N124 == <<"&", "#", "1", "2", "4", ";">>
N10  == <<"&", "#", "1", "0", ";">>
N13  == <<"&", "#", "1", "3", ";">>

\* A dropped step: '>' is left raw.
escapeDataNote_noGt(n) ==
    ReplaceLineBreaks(
     ReplaceAll(
      ReplaceAll(
       ReplaceAll(
        ReplaceAll(
         ReplaceAll(
          ReplaceAll(n, <<"&">>, AMP),
          <<"\"">>, QUOT),
         <<"<">>, LT),
        <<"'">>, N39),
       <<BT>>, N96),
      <<"|">>, N124),
     N10)

\* src/CHANGELOG.md escapeDataNote: eight replacements, in this order.
escapeDataNote(n) ==
    ReplaceLineBreaks(
     ReplaceAll(
      ReplaceAll(
       ReplaceAll(
        ReplaceAll(
         ReplaceAll(
          ReplaceAll(
           ReplaceAll(n, <<"&">>, AMP),
           <<"\"">>, QUOT),
          <<"<">>, LT),
         <<">">>, GT),
        <<"'">>, N39),
       <<BT>>, N96),
      <<"|">>, N124),
     N10)

\* src/main.ts escapeDataNote: seven replacements, no '|' step.
escapeDataNote_main(n) ==
    ReplaceLineBreaks(
     ReplaceAll(
      ReplaceAll(
       ReplaceAll(
        ReplaceAll(
         ReplaceAll(
          ReplaceAll(n, <<"&">>, AMP),
          <<"\"">>, QUOT),
         <<"<">>, LT),
        <<">">>, GT),
       <<"'">>, N39),
      <<BT>>, N96),
     N10)

\* src/CHANGELOG.md decodeDataNote: nine replacements, '&amp;' last.
decodeDataNote(n) ==
    ReplaceAll(
     ReplaceAll(
      ReplaceAll(
       ReplaceAll(
        ReplaceAll(
         ReplaceAll(
          ReplaceAll(
           ReplaceAll(
            ReplaceAll(n, N10, <<"\n">>),
            N13, <<"\r">>),
           N96, <<BT>>),
          N39, <<"'">>),
         QUOT, <<"\"">>),
        GT, <<">">>),
       LT, <<"<">>),
      N124, <<"|">>),
     AMP, <<"&">>)

\* src/main.ts decodeDataNote: eight replacements, no '&#124;' step.
decodeDataNote_main(n) ==
    ReplaceAll(
     ReplaceAll(
      ReplaceAll(
       ReplaceAll(
        ReplaceAll(
         ReplaceAll(
          ReplaceAll(
           ReplaceAll(n, N10, <<"\n">>),
           N13, <<"\r">>),
          N96, <<BT>>),
         N39, <<"'">>),
        QUOT, <<"\"">>),
       GT, <<">">>),
      LT, <<"<">>),
     AMP, <<"&">>)

Encode(b, n) == IF b = "main" THEN escapeDataNote_main(n) ELSE escapeDataNote(n)
Decode(b, n) == IF b = "main" THEN decodeDataNote_main(n) ELSE decodeDataNote(n)

(***************************************************************************)
(* Marker grammar: COMMENT_REGEX                                           *)
(*   /<span class="ob-comment(?:\s+([\w-]+))?" data-note="([\s\S]*?)">     *)
(*    ([\s\S]*?)<\/span>/g                                                 *)
(***************************************************************************)

OPEN_LIT == <<"<", "s", "p", "a", "n", " ", "c", "l", "a", "s", "s", "=", "\"",
              "o", "b", "-", "c", "o", "m", "m", "e", "n", "t">>
NOTE_LIT == <<"\"", " ", "d", "a", "t", "a", "-", "n", "o", "t", "e", "=", "\"">>
QGT_LIT  == <<"\"", ">">>
CLOSE_LIT == <<"<", "/", "s", "p", "a", "n", ">">>

\* \s, restricted to the white space a TLA+ string can hold.
IsSpace(c) == c \in {" ", "\t", "\n", "\r", "\f"}

\* [\w-]: ASCII letters, digits, underscore, and the hyphen.
IsWordOrHyphen(c) ==
    c \in {"a", "b", "c", "d", "e", "f", "g", "h", "i", "j", "k", "l", "m",
           "n", "o", "p", "q", "r", "s", "t", "u", "v", "w", "x", "y", "z",
           "A", "B", "C", "D", "E", "F", "G", "H", "I", "J", "K", "L", "M",
           "N", "O", "P", "Q", "R", "S", "T", "U", "V", "W", "X", "Y", "Z",
           "0", "1", "2", "3", "4", "5", "6", "7", "8", "9", "_", "-"}

\* s.indexOf(lit, i - 1) + 1: the first sequence index >= i at which lit
\* occurs, 0 when there is none.
IndexOf(s, lit, i) ==
    LET at == {k \in i..(Len(s) - Len(lit) + 1) : HasAt(s, k, lit)}
    IN  IF at = {} THEN 0 ELSE CHOOSE k \in at : \A m \in at : k <= m

\* The end (exclusive) of the longest run of characters of a class from i.
RECURSIVE SpaceRunEnd(_, _)
SpaceRunEnd(s, i) ==
    IF i <= Len(s) /\ IsSpace(s[i]) THEN SpaceRunEnd(s, i + 1) ELSE i

RECURSIVE WordRunEnd(_, _)
WordRunEnd(s, i) ==
    IF i <= Len(s) /\ IsWordOrHyphen(s[i]) THEN WordRunEnd(s, i + 1) ELSE i

\* ([\s\S]*?)">([\s\S]*?)<\/span> from index i: the lazy note field grows
\* until a '">' is followed, anywhere later, by '</span>'.  The index of that
\* '">', 0 when the rest of the pattern cannot match.
RECURSIVE NoteEnd(_, _)
NoteEnd(s, i) ==
    Let(IndexOf(s, QGT_LIT, i), LAMBDA j :
        IF j = 0 THEN 0
        ELSE IF IndexOf(s, CLOSE_LIT, j + 2) # 0 THEN j
        ELSE NoteEnd(s, j + 1))

\* null, the result of a failed exec.
NoMatch == [index |-> -1]
IsNull(m) == m.index = -1

\* The rest of the pattern once the class attribute is read: i is the index
\* where '" data-note="' must stand, color the captured group 1 ("" if none).
MatchTail(s, start, i, color) ==
    IF ~HasAt(s, i, NOTE_LIT) THEN NoMatch
    ELSE Let(NoteEnd(s, i + Len(NOTE_LIT)), LAMBDA j :
             IF j = 0 THEN NoMatch
             ELSE Let(IndexOf(s, CLOSE_LIT, j + 2), LAMBDA k :
                      [index |-> start - 1,
                       full  |-> SubSeq(s, start, k + Len(CLOSE_LIT) - 1),
                       color |-> color,
                       note  |-> SubSeq(s, i + Len(NOTE_LIT), j - 1),
                       text  |-> SubSeq(s, j + 2, k - 1)]))

\* The pattern anchored at sequence index start.  The optional group
\* (?:\s+([\w-]+))? is greedy: it is tried first, then the pattern without it.
MatchAt(s, start) ==
    IF ~HasAt(s, start, OPEN_LIT) THEN NoMatch
    ELSE LET p == start + Len(OPEN_LIT)
             withGroup(ws, we) ==
                 IF ws > p /\ we > ws
                 THEN MatchTail(s, start, we, SubSeq(s, ws, we - 1))
                 ELSE NoMatch
         IN  Let(SpaceRunEnd(s, p), LAMBDA ws :
             Let(WordRunEnd(s, ws), LAMBDA we :
             Let(withGroup(ws, we), LAMBDA m :
                 IF ~IsNull(m) THEN m
                 ELSE MatchTail(s, start, p, <<>>))))

\* COMMENT_REGEX.exec(text) with COMMENT_REGEX.lastIndex = lastIndex (an
\* offset): the first match starting at or after lastIndex, or NoMatch (null).
RECURSIVE COMMENT_REGEX_exec(_, _)
COMMENT_REGEX_exec(text, lastIndex) ==
    Let(IndexOf(text, OPEN_LIT, lastIndex + 1), LAMBDA i :
        IF lastIndex > Len(text) \/ i = 0 THEN NoMatch
        ELSE Let(MatchAt(text, i), LAMBDA m :
                 IF ~IsNull(m) THEN m ELSE COMMENT_REGEX_exec(text, i)))

\* match.index + match[0].length: where the next exec starts.
MatchEnd(m) == m.index + Len(m.full)

\* The matches of the loop  while ((match = COMMENT_REGEX.exec(text)) !== null)
\* started with lastIndex, in the order the loop sees them.
RECURSIVE AllMatches(_, _)
AllMatches(text, lastIndex) ==
    Let(COMMENT_REGEX_exec(text, lastIndex), LAMBDA m :
        IF IsNull(m) THEN <<>>
        ELSE <<m>> \o AllMatches(text, MatchEnd(m)))

(***************************************************************************)
(* Markers written by the plugin, the normalizer, the cursor resolver      *)
(***************************************************************************)

\* COLOR_OPTIONS[i].value, in the order of the palette.
COLOR_OPTIONS ==
    << <<"r", "e", "d">>, <<>>, <<"y", "e", "l", "l", "o", "w">>,
       <<"g", "r", "e", "e", "n">>, <<"c", "y", "a", "n">>,
       <<"b", "l", "u", "e">>, <<"p", "u", "r", "p", "l", "e">>,
       <<"g", "r", "a", "y">> >>

DEFAULT_COLOR == <<>>

\* DEFAULT_SETTINGS, the field the model uses.
DEFAULT_SETTINGS == [defaultColor |-> DEFAULT_COLOR]

OB_COMMENT == <<"o", "b", "-", "c", "o", "m", "m", "e", "n", "t">>

buildAnnotationClass(color) ==
    IF color # <<>> THEN OB_COMMENT \o <<" ">> \o color ELSE OB_COMMENT

\* The template literal shared by add, edit, color change and normalize:
\* `<span class="${cls}" data-note="${safeNote}">${text}</span>`
SpanHtml(cls, safeNote, text) ==
    <<"<", "s", "p", "a", "n", " ", "c", "l", "a", "s", "s", "=", "\"">>
    \o cls \o NOTE_LIT \o safeNote \o QGT_LIT \o text \o CLOSE_LIT

\* A normalizer that rebuilds every marker with the default class.
RECURSIVE normalizeLoop_dropColor(_, _, _, _)
normalizeLoop_dropColor(text, lastIndex, result, changed) ==
    LET match == COMMENT_REGEX_exec(text, lastIndex)
    IN  IF IsNull(match)
        THEN [text |-> IF changed THEN result \o From(text, lastIndex + 1) ELSE text,
              changed |-> changed]
        ELSE LET safeNote == escapeDataNote(decodeDataNote(match.note))
                 replacement == SpanHtml(OB_COMMENT, safeNote, match.text)
             IN  normalizeLoop_dropColor(
                     text, MatchEnd(match),
                     result \o SubSeq(text, lastIndex + 1, match.index) \o replacement,
                     changed \/ replacement # match.full)

\* The while loop of normalizeAnnotationsInText; lastIndex is both the JS
\* local of that name and COMMENT_REGEX.lastIndex (they are equal at the top
\* of every iteration).
RECURSIVE normalizeLoop(_, _, _, _)
normalizeLoop(text, lastIndex, result, changed) ==
    Let(COMMENT_REGEX_exec(text, lastIndex), LAMBDA match :
        IF IsNull(match)
        THEN [text |-> IF changed THEN result \o From(text, lastIndex + 1) ELSE text,
              changed |-> changed]
        ELSE Let(SpanHtml(buildAnnotationClass(match.color),
                          escapeDataNote(decodeDataNote(match.note)), match.text),
                 LAMBDA replacement :
                 normalizeLoop(
                     text, MatchEnd(match),
                     result \o SubSeq(text, lastIndex + 1, match.index) \o replacement,
                     changed \/ replacement # match.full)))

normalizeAnnotationsInText(text) == normalizeLoop(text, 0, <<>>, FALSE)

(***************************************************************************)
(* Editor positions and findAnnotationAtCursor                             *)
(***************************************************************************)

\* The offset at which line n (0-based) of text starts: 0, or the offset
\* after the n-th line feed.
LineStart(text, n) ==
    IF n = 0 THEN 0
    ELSE CHOOSE o \in 1..Len(text) :
            /\ text[o] = "\n"
            /\ Cardinality({i \in 1..o : text[i] = "\n"}) = n

\* editor.offsetToPos(offset): the line is the number of line feeds before
\* the offset, ch the distance from the start of that line.
offsetToPos(text, offset) ==
    LET line == Cardinality({i \in 1..offset : text[i] = "\n"})
    IN  [line |-> line, ch |-> offset - LineStart(text, line)]

\* editor.posToOffset(pos)
posToOffset(text, pos) == LineStart(text, pos.line) + pos.ch

\* null, returned when the loop ends without a hit.
NoAnnotation == [found |-> FALSE]

\* A resolver whose end test is strict: the cursor right after '</span>'
\* no longer counts as inside.
RECURSIVE findLoop_strictEnd(_, _, _)
findLoop_strictEnd(docText, cursorOffset, lastIndex) ==
    LET match == COMMENT_REGEX_exec(docText, lastIndex)
        startOffset == match.index
        endOffset == startOffset + Len(match.full)
    IN  IF IsNull(match) THEN NoAnnotation
        ELSE IF cursorOffset >= startOffset /\ cursorOffset < endOffset
             THEN [found |-> TRUE,
                   from  |-> offsetToPos(docText, startOffset),
                   to    |-> offsetToPos(docText, endOffset),
                   text  |-> match.text,
                   note  |-> decodeDataNote(match.note),
                   color |-> match.color]
             ELSE findLoop_strictEnd(docText, cursorOffset, endOffset)

\* A resolver that keeps scanning and returns the last marker containing the
\* cursor instead of the first.
RECURSIVE findLoop_lastHit(_, _, _)
findLoop_lastHit(docText, cursorOffset, lastIndex) ==
    LET match == COMMENT_REGEX_exec(docText, lastIndex)
        startOffset == match.index
        endOffset == startOffset + Len(match.full)
        later == findLoop_lastHit(docText, cursorOffset, endOffset)
    IN  IF IsNull(match) THEN NoAnnotation
        ELSE IF cursorOffset >= startOffset /\ cursorOffset <= endOffset /\ ~later.found
             THEN [found |-> TRUE,
                   from  |-> offsetToPos(docText, startOffset),
                   to    |-> offsetToPos(docText, endOffset),
                   text  |-> match.text,
                   note  |-> decodeDataNote(match.note),
                   color |-> match.color]
             ELSE later

\* A resolver that still counts the cursor one character after '</span>'
\* as inside.
RECURSIVE findLoop_loose(_, _, _)
findLoop_loose(docText, cursorOffset, lastIndex) ==
    LET match == COMMENT_REGEX_exec(docText, lastIndex)
        startOffset == match.index
        endOffset == startOffset + Len(match.full)
    IN  IF IsNull(match) THEN NoAnnotation
        ELSE IF cursorOffset >= startOffset /\ cursorOffset <= endOffset + 1
             THEN [found |-> TRUE,
                   from  |-> offsetToPos(docText, startOffset),
                   to    |-> offsetToPos(docText, endOffset),
                   text  |-> match.text,
                   note  |-> decodeDataNote(match.note),
                   color |-> match.color]
             ELSE findLoop_loose(docText, cursorOffset, endOffset)

\* The while loop of findAnnotationAtCursor, entered with
\* COMMENT_REGEX.lastIndex = lastIndex: the first match whose closed interval
\* [startOffset, endOffset] holds the cursor is returned at once.
RECURSIVE findLoop(_, _, _)
findLoop(docText, cursorOffset, lastIndex) ==
    Let(COMMENT_REGEX_exec(docText, lastIndex), LAMBDA match :
        LET startOffset == match.index
            endOffset == startOffset + Len(match.full)
        IN  IF IsNull(match) THEN NoAnnotation
            ELSE IF cursorOffset >= startOffset /\ cursorOffset <= endOffset
                 THEN [found |-> TRUE,
                       from  |-> offsetToPos(docText, startOffset),
                       to    |-> offsetToPos(docText, endOffset),
                       text  |-> match.text,
                       note  |-> decodeDataNote(match.note),
                       color |-> match.color]
                 ELSE findLoop(docText, cursorOffset, endOffset))

\* findAnnotationAtCursor(editor) with editor.getValue() = docText and
\* editor.getCursor() = pos; COMMENT_REGEX.lastIndex is reset to 0 first.
findAnnotationAtCursor(docText, pos) == findLoop(docText, posToOffset(docText, pos), 0)

\* A scan that resumes one character after the start of the previous match
\* instead of at its end.
RECURSIVE ScanSpans_restartInside(_, _)
ScanSpans_restartInside(text, lastIndex) ==
    LET m == COMMENT_REGEX_exec(text, lastIndex)
    IN  IF IsNull(m) THEN <<>>
        ELSE <<[start |-> m.index, end |-> MatchEnd(m)]>>
             \o ScanSpans_restartInside(text, m.index + 1)

\* The spans [match.index, match.index + match[0].length) of a whole scan,
\* as buildDecorations and normalizeAnnotationsInText walk them.
RECURSIVE ScanSpans(_, _)
ScanSpans(text, lastIndex) ==
    Let(COMMENT_REGEX_exec(text, lastIndex), LAMBDA m :
        IF IsNull(m) THEN <<>>
        ELSE <<[start |-> m.index, end |-> MatchEnd(m)]>>
             \o ScanSpans(text, MatchEnd(m)))

(***************************************************************************)
(* Editor operations: edit, color change, delete                           *)
(***************************************************************************)

\* editor.replaceRange(replacement, from, to) applied to the text docText.
replaceRange(docText, replacement, from, to) ==
    SubSeq(docText, 1, posToOffset(docText, from))
    \o replacement
    \o From(docText, posToOffset(docText, to) + 1)

\* Where the host leaves a cursor at offset o after [s, e) was replaced by
\* len characters: untouched before the range, shifted after it, and at one
\* of the two ends of the new text when it stood in the closed range (the
\* host's choice).
CursorAfter(o, s, e, len) ==
    IF o < s THEN {o}
    ELSE IF o > e THEN {o - (e - s) + len}
    ELSE {s, s + len}

\* An edit that escapes the visible text like the note.
editReplacement_escapesText(ann, newNote, newColor) ==
    SpanHtml(buildAnnotationClass(newColor), escapeDataNote(newNote),
             escapeDataNote(ann.text))

\* handleEditCommand, the modal's onSubmit:
\* `<span class="${buildAnnotationClass(newColor)}" data-note="${safeNote}">${existing.text}</span>`
editReplacement(ann, newNote, newColor) ==
    SpanHtml(buildAnnotationClass(newColor), escapeDataNote(newNote), ann.text)

\* handleContextMenu, the color submenu's onClick:
\* `<span class="${buildAnnotationClass(opt.value)}" data-note="${escapeDataNote(existingAnnotation.note)}">${existingAnnotation.text}</span>`
colorReplacement(ann, color) ==
    SpanHtml(buildAnnotationClass(color), escapeDataNote(ann.note), ann.text)

\* handleDeleteCommand: the marker is replaced by existing.text.
deleteReplacement(ann) == ann.text

\* No replacement made yet.
NoOp == [kind |-> "none"]

\* No add dialog is open.
NoAdding == [open |-> FALSE]

\* No Notice shown yet.
NoNotice == <<"none">>

\* No request made yet.
NoRequest == [cmd |-> "none"]

\* normalizeAllMarkdownFiles is not running.
NoBatch == [phase |-> "idle"]

\* The tooltip element as createTooltipElement leaves it.
NoTooltip == [visible |-> FALSE, text |-> <<>>]

\* No scan made yet.
NoScan == [call |-> "none"]

(***************************************************************************)
(* Codec specification: a note is drawn, encoded, then decoded.            *)
(***************************************************************************)

Builds == {"main", "changelog"}

\* Every character escapeDataNote rewrites, in one string.
AllTriggers == <<"&", "\"", "<", ">", "'", BT, "|", "\r", "\n">>

NotePieces ==
    { <<"&">>, <<"\"">>, <<"<">>, <<">">>, <<"'">>, <<BT>>, <<"|">>,
      <<"\r">>, <<"\n">>, <<"a">>,
      <<"a", "m", "p", ";">>, <<"l", "t", ";">>,
      <<"#", "1", "0", ";">>, <<"#", "1", "3", ";">>,
      AllTriggers }

MaxNotePieces == 3

Notes == {Flatten(ps) : ps \in SeqsUpTo(NotePieces, MaxNotePieces)}

NoString == <<"?">>

\* The variables a specification does not use stay at these values.
CodecIdle ==
    /\ build = "changelog" /\ note = NoString
    /\ encoded = NoString /\ decoded = NoString
NormIdle ==
    /\ prev = NoString /\ normChanged = FALSE /\ passes = 0 /\ canonical = FALSE
ResolveIdle ==
    /\ cursor = [line |-> 0, ch |-> 0] /\ matches = <<>> /\ existing = NoAnnotation
BulkIdle ==
    /\ vault = <<>> /\ batch = NoBatch /\ writes = <<>> /\ snapshot = <<>>
PluginIdle ==
    /\ tooltip = NoTooltip /\ reencoded = NoString /\ viewport = 0
    /\ regexLastIndex = 0 /\ scan = NoScan /\ settings = DEFAULT_SETTINGS
EditorIdle ==
    /\ ui = "idle" /\ modal = NoAnnotation /\ lastOp = NoOp /\ edits = 0
    /\ selection = [anchor |-> 0, head |-> 0] /\ adding = NoAdding
    /\ notice = NoNotice /\ lastUsedColor = DEFAULT_COLOR /\ request = NoRequest
    /\ decorations = <<>>
    /\ BulkIdle
    /\ PluginIdle

InitCodec ==
    /\ build \in Builds
    /\ note \in Notes
    /\ encoded = NoString
    /\ decoded = NoString
    /\ pc = "input"
    /\ doc = <<>>
    /\ NormIdle
    /\ ResolveIdle
    /\ EditorIdle

EncodeNote ==
    /\ pc = "input"
    /\ encoded' = Encode(build, note)
    /\ pc' = "encoded"
    /\ UNCHANGED <<build, note, decoded, doc, normVars, resolveVars, editorVars, addVars, decorations, bulkVars, pluginVars>>

DecodeNote ==
    /\ pc = "encoded"
    /\ decoded' = Decode(build, encoded)
    /\ pc' = "decoded"
    /\ UNCHANGED <<build, note, encoded, doc, normVars, resolveVars, editorVars, addVars, decorations, bulkVars, pluginVars>>

NextCodec == EncodeNote \/ DecodeNote

SpecCodec == InitCodec /\ [][NextCodec]_vars

\* C1: round trip of the note codec: once a note has been encoded and the
\* result decoded, the decoded string equals the note.
C1_RoundTrip == pc = "decoded" => decoded = note

\* C6: the output of escapeDataNote holds no raw double quote, no raw '<'
\* and no raw '>'.
C6_NoRawDelimiter ==
    pc # "input" =>
        /\ ~Contains(encoded, "\"")
        /\ ~Contains(encoded, "<")
        /\ ~Contains(encoded, ">")

\* C6 witness: a note holding all three delimiters has been encoded.
C6_Witness ==
    /\ pc = "encoded"
    /\ Contains(note, "\"") /\ Contains(note, "<") /\ Contains(note, ">")
    /\ Len(encoded) > Len(note)

\* C7: the output of escapeDataNote holds no raw line feed, no raw carriage
\* return and no raw '|'.
C7_NoRawLineBreakOrBar ==
    pc # "input" =>
        /\ ~Contains(encoded, "\n")
        /\ ~Contains(encoded, "\r")
        /\ ~Contains(encoded, "|")

(***************************************************************************)
(* Normalizer specification: a text is drawn and normalizeAnnotationsInText *)
(* is applied to it, then to its own output.                               *)
(***************************************************************************)

MaxColors == 2

\* The first MaxColors values of the palette (at least "red" and the default).
Palette == {COLOR_OPTIONS[i] : i \in 1..MaxColors}

\* Notes as the user typed them, for markers written by the plugin.
TypedNotes ==
    { <<"n">>,
      <<"a", "\"", "\n", "b">>,
      <<"&", "l", "t", ";">>,
      <<"\r", "\r", "\n">> }

VISIBLE == <<"v">>

\* What performAddAnnotation and handleEditCommand write.
CanonicalMarkers ==
    {SpanHtml(buildAnnotationClass(c), escapeDataNote(n), VISIBLE) :
        c \in Palette, n \in TypedNotes}

\* Markers as older versions or hand edits left them: raw line breaks, a raw
\* '>' or '"' in the note, several blanks or a tab before the color, a
\* color outside the palette, visible text over two lines.
LegacyMarkers ==
    { SpanHtml(OB_COMMENT, <<"a", "\n", "b">>, VISIBLE),
      SpanHtml(OB_COMMENT, <<"a", ">", "b", "\"", "c">>, <<"v", "\n", "w">>),
      SpanHtml(OB_COMMENT \o <<" ", " ", "r", "e", "d">>, <<"n">>, VISIBLE),
      SpanHtml(OB_COMMENT \o <<"\t", "m", "y", "-", "t", "a", "g">>,
               <<"a", "\r", "\n", "b">>, VISIBLE),
      SpanHtml(OB_COMMENT, <<"&", "#", "1", "3", ";", "\r", "\n">>, VISIBLE) }

\* A start delimiter that lost the '">' ending its note field.
BrokenStart == OPEN_LIT \o NOTE_LIT \o <<"n">>

PlainPieces == { <<"x">>, <<"\n">>, CLOSE_LIT }

DocPieces == PlainPieces \cup {BrokenStart} \cup CanonicalMarkers \cup LegacyMarkers

MaxDocPieces == 2
MaxPasses == 2

InitNorm ==
    /\ \E ps \in SeqsUpTo(DocPieces, MaxDocPieces) :
          /\ doc = Flatten(ps)
          /\ canonical =
                (\A i \in 1..Len(ps) : ps[i] \in PlainPieces \cup CanonicalMarkers)
    /\ prev = NoString
    /\ normChanged = FALSE
    /\ passes = 0
    /\ pc = "text"
    /\ CodecIdle
    /\ ResolveIdle
    /\ EditorIdle

\* { text, changed } = normalizeAnnotationsInText(doc); the caller keeps text.
NormalizePass ==
    /\ passes < MaxPasses
    /\ LET r == normalizeAnnotationsInText(doc)
       IN  /\ doc' = r.text
           /\ normChanged' = r.changed
    /\ prev' = doc
    /\ passes' = passes + 1
    /\ pc' = "normalized"
    /\ UNCHANGED <<codecVars, canonical, resolveVars, editorVars, addVars, decorations, bulkVars, pluginVars>>

NextNorm == NormalizePass

SpecNorm == InitNorm /\ [][NextNorm]_vars

\* The marker skeleton of a text: the matches with their color and visible
\* text, and the text outside the matches (before the first, between
\* consecutive ones, after the last).
Skeleton(text) ==
    LET ms == AllMatches(text, 0)
        gapStart(i) == IF i = 1 THEN 1 ELSE MatchEnd(ms[i - 1]) + 1
        gapEnd(i) == IF i = Len(ms) + 1 THEN Len(text) ELSE ms[i].index
    IN  [markers |-> [i \in 1..Len(ms) |-> <<ms[i].color, ms[i].text>>],
         gaps |-> [i \in 1..(Len(ms) + 1) |-> SubSeq(text, gapStart(i), gapEnd(i))]]

\* C2: normalization is idempotent: a pass over the output of a pass
\* reports changed = false and returns the text it was given.
C2_Idempotent == passes >= 2 => (normChanged = FALSE /\ doc = prev)

\* C8: normalization changes only note payloads: the output of a pass has
\* the same markers, in the same order, with the same color and visible
\* text, and the same text outside the markers, as its input.
C8_OnlyNotesChange == passes >= 1 => Skeleton(doc) = Skeleton(prev)

\* C8 witness: a pass rewrote a text with two markers, one of them colored,
\* and text outside them.
C8_Witness ==
    /\ passes = 1 /\ normChanged
    /\ LET sk == Skeleton(prev)
       IN  /\ Len(sk.markers) = 2
           /\ \E i \in 1..2 : sk.markers[i][1] # <<>>

\* C9: a text whose markers were all written by the plugin is a fixed point:
\* the first pass reports changed = false and returns the text unchanged.
C9_CanonicalFixedPoint ==
    (canonical /\ passes = 1) => (normChanged = FALSE /\ doc = prev)

(***************************************************************************)
(* Resolver specification: a text and a cursor are drawn, the text is      *)
(* scanned, then the cursor is resolved.                                   *)
(***************************************************************************)

MARKER_A == SpanHtml(OB_COMMENT, <<"n">>, VISIBLE)
MARKER_B == SpanHtml(OB_COMMENT \o <<" ", "r", "e", "d">>, <<"a", ">", "b">>,
                     <<"v", "\n", "w">>)

ResolvePieces == { <<"x">>, <<"\n">>, MARKER_A, MARKER_B, BrokenStart }

MaxResolvePieces == 3

InitResolve ==
    /\ \E ps \in SeqsUpTo(ResolvePieces, MaxResolvePieces) : doc = Flatten(ps)
    /\ \E o \in 0..Len(doc) : cursor = offsetToPos(doc, o)
    /\ matches = <<>>
    /\ existing = NoAnnotation
    /\ pc = "text"
    /\ CodecIdle
    /\ NormIdle
    /\ EditorIdle

\* A whole scan: while ((match = COMMENT_REGEX.exec(text)) !== null) { ... }
ScanDocument ==
    /\ pc = "text"
    /\ matches' = ScanSpans(doc, 0)
    /\ pc' = "scanned"
    /\ UNCHANGED <<codecVars, normVars, editorVars, addVars, decorations, bulkVars, pluginVars, doc, cursor, existing>>

\* const existing = this.findAnnotationAtCursor(editor)
ResolveCursor ==
    /\ pc = "scanned"
    /\ existing' = findAnnotationAtCursor(doc, cursor)
    /\ pc' = "resolved"
    /\ UNCHANGED <<codecVars, normVars, editorVars, addVars, decorations, bulkVars, pluginVars, doc, cursor, matches>>

NextResolve == ScanDocument \/ ResolveCursor

SpecResolve == InitResolve /\ [][NextResolve]_vars

CursorOffset == posToOffset(doc, cursor)

\* The closed interval of match i holds offset o.
Holds(i, o) == matches[i].start <= o /\ o <= matches[i].end

\* findAnnotationAtCursor returned match i.
ResolvedTo(i) ==
    /\ existing.found
    /\ existing.from = offsetToPos(doc, matches[i].start)
    /\ existing.to = offsetToPos(doc, matches[i].end)

\* C3: the matches of a scan come in strictly increasing start order and
\* their half-open spans [start, end) are pairwise disjoint.
C3_NonOverlap ==
    pc # "text" =>
        \A i, j \in 1..Len(matches) :
            i < j => /\ matches[i].start < matches[j].start
                     /\ matches[i].end <= matches[j].start

\* C3 witness: a scan met two matches.
C3_Witness == pc = "scanned" /\ Len(matches) >= 2

\* C4: closed-interval containment: a marker whose closed interval holds the
\* cursor, no earlier marker's doing so, is the one resolved; no marker is
\* resolved from the offset before its start or the offset after its end.
C4_ClosedInterval ==
    pc = "resolved" =>
        \A i \in 1..Len(matches) :
            /\ (Holds(i, CursorOffset) /\ \A k \in 1..(i - 1) : ~Holds(k, CursorOffset))
                  => ResolvedTo(i)
            /\ (CursorOffset = matches[i].start - 1 \/ CursorOffset = matches[i].end + 1)
                  => ~ResolvedTo(i)

\* C4 witness: the cursor stands exactly at the end of a marker that spans
\* the whole text, and is resolved to it.
C4_Witness ==
    /\ pc = "resolved"
    /\ Len(matches) = 1
    /\ matches[1].start = 0 /\ matches[1].end = Len(doc)
    /\ CursorOffset = Len(doc)
    /\ ResolvedTo(1)

\* C10 as claimed: at most one marker's closed interval holds the cursor.
C10_AtMostOneHolds ==
    pc = "resolved" =>
        Cardinality({i \in 1..Len(matches) : Holds(i, CursorOffset)}) <= 1

\* C10 amended: at most one marker's half-open span [start, end) holds the
\* cursor; two closed intervals hold it exactly when the cursor is on the
\* boundary shared by two adjacent markers, and then the earlier one is
\* resolved.
C10_FirstOfAtMostTwo ==
    pc = "resolved" =>
        LET holders == {i \in 1..Len(matches) : Holds(i, CursorOffset)}
        IN  /\ Cardinality({i \in holders : CursorOffset < matches[i].end}) <= 1
            /\ Cardinality(holders) <= 2
            /\ \A i, j \in holders :
                  i < j => /\ j = i + 1
                           /\ matches[i].end = CursorOffset
                           /\ matches[j].start = CursorOffset
                           /\ ResolvedTo(i)
            /\ (holders = {}) = ~existing.found

\* C10 witness: the cursor is on the boundary shared by two adjacent markers.
C10_Witness ==
    /\ pc = "resolved"
    /\ \E i \in 1..(Len(matches) - 1) :
          /\ matches[i].end = CursorOffset
          /\ matches[i + 1].start = CursorOffset
          /\ ResolvedTo(i)

\* The start literal at sequence index i opens a fragment, not a marker: the
\* text from i up to the next start literal (or the end of the text) is not
\* matched by the pattern.
IsFragment(text, i) ==
    /\ HasAt(text, i, OPEN_LIT)
    /\ LET nxt == IndexOf(text, OPEN_LIT, i + 1)
           seg == SubSeq(text, i, IF nxt = 0 THEN Len(text) ELSE nxt - 1)
       IN  IsNull(MatchAt(seg, 1))

\* C12: ill-formed markers are invisible: the start literal of a fragment
\* (a start delimiter that lost the '">' of its note field, or a marker that
\* lost its '</span>') lies in the span of no match of the scan, also when a
\* well-formed marker follows later, and the cursor put on it resolves to
\* no annotation.
C12_FragmentInvisible ==
    /\ pc # "text" =>
          \A i \in 1..Len(doc) :
             IsFragment(doc, i) =>
                \A k \in 1..Len(matches) :
                   ~(matches[k].start <= i - 1 /\ i - 1 < matches[k].end)
    /\ (pc = "resolved" /\ CursorOffset < Len(doc)
          /\ IsFragment(doc, CursorOffset + 1)) => ~existing.found

(***************************************************************************)
(* Editor specification: a document is open; the user moves the cursor,    *)
(* opens the context menu, runs the edit and delete commands, answers the  *)
(* modal.                                                                  *)
(***************************************************************************)

EditorDocs ==
    { Flatten(ps) : ps \in
        { <<MARKER_A>>,
          << <<"x">>, MARKER_B, <<"x">> >>,
          <<MARKER_A, MARKER_B>>,
          << <<"x", "\n">>, MARKER_B, MARKER_A>>,
          <<BrokenStart, <<"\n">>, MARKER_A, <<"x">> >> } }

\* Notes typed into the modal's textarea (its value never holds "\r").
NewNotes == { <<"m">>, <<"q", "\"", "\n", ">">> }

\* Replacements explored in one run; the cursor is moved before each.
MaxEdits == 1

\* The replacements a run may make: one more in the specifications that
\* follow an operation by another (pc = "session").
EditBudget == IF pc = "session" THEN MaxEdits + 1 ELSE MaxEdits

Init ==
    /\ doc \in EditorDocs
    /\ \E o \in 0..Len(doc) :
          /\ cursor = offsetToPos(doc, o)
          /\ selection = [anchor |-> o, head |-> o]
    /\ existing = NoAnnotation
    /\ matches = <<>>
    /\ ui = "idle"
    /\ modal = NoAnnotation
    /\ lastOp = NoOp
    /\ edits = 0
    /\ adding = NoAdding
    /\ notice = NoNotice
    /\ lastUsedColor = DEFAULT_COLOR
    /\ request = NoRequest
    /\ prev = NoString
    /\ normChanged = FALSE /\ passes = 0 /\ canonical = FALSE
    /\ pc = "editor"
    /\ CodecIdle
    /\ decorations = <<>>
    /\ BulkIdle
    /\ PluginIdle

\* What no editor operation touches.
editorFrame ==
    <<codecVars, normChanged, passes, canonical, matches, pc, decorations, bulkVars, pluginVars>>

\* editor.getSelection(): the text between the two ends of the selection.
SelFrom == IF selection.anchor <= selection.head THEN selection.anchor ELSE selection.head
SelTo == IF selection.anchor <= selection.head THEN selection.head ELSE selection.anchor
getSelection == SubSeq(doc, SelFrom + 1, SelTo)

\* selection.trim().length > 0
TrimIsNonEmpty(s) == \E i \in 1..Len(s) : ~IsSpace(s[i])

\* selection.includes('<span class="ob-comment"')
NESTED_LIT == OPEN_LIT \o <<"\"">>
includes(s, lit) == IndexOf(s, lit, 1) # 0

\* forcedColor = null
NullColor == <<"null">>

\* The Notice texts.
NO_SELECTION == <<"select a text first">>
NESTED == <<"no annotation on an annotation">>
NO_ANNOTATION == <<"no annotation at the cursor">>
SELECT_FIRST == <<"select a text to add an annotation">>

\* Some marker's closed interval holds offset o of text.
OnMarker(text, o) ==
    LET spans == ScanSpans(text, 0)
    IN  \E k \in 1..Len(spans) : spans[k].start <= o /\ o <= spans[k].end

\* The request cmd as the user makes it now.
Request(cmd) ==
    [cmd    |-> cmd,
     sel    |-> getSelection,
     found  |-> OnMarker(doc, selection.head),
     doc    |-> doc,
     color  |-> lastUsedColor,
     forced |-> NullColor,
     dialog |-> FALSE,
     calls  |-> 0,
     closed |-> "none"]

\* The modal part of the state.
Dialog == [ui |-> ui, adding |-> adding, modal |-> modal]

\* A close() that leaves the dialog open.
close_noop(d) == d

\* Modal.close(): the dialog is gone, and its closures with it.
close(d) == [d EXCEPT !.ui = "idle", !.adding = NoAdding, !.modal = NoAnnotation]

\* The replacement of annotation ann by replacement, with the bookkeeping:
\* the text before, the annotation, the kind of operation.
Replace(kind, ann, replacement) ==
    LET s == posToOffset(doc, ann.from)
        e == posToOffset(doc, ann.to)
        newDoc == replaceRange(doc, replacement, ann.from, ann.to)
    IN  /\ doc' = newDoc
        /\ \E o \in CursorAfter(posToOffset(doc, cursor), s, e, Len(replacement)),
              a \in CursorAfter(selection.anchor, s, e, Len(replacement)) :
              /\ selection.anchor = selection.head => a = o
              /\ cursor' = offsetToPos(newDoc, o)
              /\ selection' = [anchor |-> a, head |-> o]
        /\ prev' = doc
        /\ lastOp' = [kind |-> kind, ann |-> ann]
        /\ edits' = edits + 1

\* The user puts the cursor somewhere else; the notice of the last request,
\* if any, has gone by then.
SetCursor ==
    /\ ui = "idle"
    /\ edits < EditBudget
    /\ \E o \in 0..Len(doc) :
          /\ cursor' = offsetToPos(doc, o)
          /\ selection' = [anchor |-> o, head |-> o]
    /\ cursor' # cursor
    /\ notice' = NoNotice
    /\ request' = NoRequest
    /\ UNCHANGED <<editorFrame, prev, doc, existing, editorVars, adding,
                   lastUsedColor>>

\* handleContextMenu: the menu gets the add / edit / color / delete items
\* when the cursor is on an annotation ("menu"), the add item alone when it
\* is not and the selection holds more than blanks ("menuAdd").
HandleContextMenu ==
    /\ ui = "idle"
    /\ edits < EditBudget
    /\ existing' = findAnnotationAtCursor(doc, cursor)
    /\ ui' = IF existing'.found THEN "menu"
             ELSE IF TrimIsNonEmpty(getSelection) THEN "menuAdd"
             ELSE "idle"
    /\ UNCHANGED <<editorFrame, prev, doc, cursor, modal, lastOp, edits, addVars>>

\* The menu is closed without a choice.
DismissMenu ==
    /\ ui \in {"menu", "menuAdd"}
    /\ ui' = "idle"
    /\ existing' = NoAnnotation
    /\ UNCHANGED <<editorFrame, prev, doc, cursor, modal, lastOp, edits, addVars>>

\* performAddAnnotation: the add dialog is opened; its onSubmit closure
\* holds selectionText.
\* A dialog that starts from the configured default when no color is forced.
initialColor_default(forcedColor, remembered) ==
    IF forcedColor # NullColor THEN forcedColor ELSE settings.defaultColor

\* const initialColor = forcedColor !== null ? forcedColor : AnnotationPlugin.lastUsedColor
initialColor(forcedColor, remembered) ==
    IF forcedColor # NullColor THEN forcedColor ELSE remembered

performAddAnnotation(cmd, selectionText, forcedColor) ==
    /\ adding' = [open          |-> TRUE,
                  selectionText |-> selectionText,
                  initialColor  |-> initialColor(forcedColor, lastUsedColor)]
    /\ ui' = "addModal"
    /\ notice' = NoNotice
    /\ request' = [Request(cmd) EXCEPT !.dialog = TRUE, !.forced = forcedColor]

\* handleAddCommand(editor, forcedColor): the add command, or one of the
\* add-with-color commands.
HandleAddCommand ==
    /\ ui = "idle"
    /\ edits < EditBudget
    /\ \E forcedColor \in Palette \cup {NullColor} :
          IF getSelection = <<>>
          THEN /\ notice' = NO_SELECTION
               /\ request' = Request("add")
               /\ UNCHANGED <<ui, adding>>
          ELSE IF includes(getSelection, NESTED_LIT)
          THEN /\ notice' = NESTED
               /\ request' = Request("add")
               /\ UNCHANGED <<ui, adding>>
          ELSE performAddAnnotation("add", getSelection, forcedColor)
    /\ UNCHANGED <<editorFrame, prev, doc, resolveVars, modal, lastOp, edits,
                   selection, lastUsedColor>>

\* The add item of the menu built with the cursor on an annotation.
ClickAddOnMarker ==
    /\ ui = "menu"
    /\ IF getSelection # <<>>
       THEN performAddAnnotation("menu add on marker", getSelection, NullColor)
       ELSE /\ notice' = SELECT_FIRST
            /\ request' = Request("menu add on marker")
            /\ ui' = "idle"
            /\ UNCHANGED adding
    /\ existing' = NoAnnotation
    /\ UNCHANGED <<editorFrame, prev, doc, cursor, matches, modal, lastOp, edits,
                   selection, lastUsedColor>>

\* The add item of the menu built with the cursor on no annotation; the
\* selection it hands over is the one read when the menu was built (the
\* editor does not change while the menu is open).
ClickAdd ==
    /\ ui = "menuAdd"
    /\ performAddAnnotation("menu add", getSelection, NullColor)
    /\ existing' = NoAnnotation
    /\ UNCHANGED <<editorFrame, prev, doc, cursor, matches, modal, lastOp, edits,
                   selection, lastUsedColor>>

\* An add that writes the note as typed.
addReplacement_rawNote(selectionText, noteContent, colorChoice) ==
    SpanHtml(buildAnnotationClass(colorChoice), noteContent, selectionText)

\* performAddAnnotation, the modal's onSubmit:
\* `<span class="${buildAnnotationClass(colorChoice)}" data-note="${safeNote}">${selectionText}</span>`
addReplacement(selectionText, noteContent, colorChoice) ==
    SpanHtml(buildAnnotationClass(colorChoice), escapeDataNote(noteContent),
             selectionText)

\* AnnotationModal.submit of the add dialog: onSubmit(noteContent,
\* colorChoice) remembers the color and replaces the selection, then close.
SubmitAdd ==
    /\ ui = "addModal"
    /\ \E noteContent \in NewNotes, colorChoice \in Palette :
          LET replacement == addReplacement(adding.selectionText, noteContent,
                                            colorChoice)
              newDoc == SubSeq(doc, 1, SelFrom) \o replacement \o From(doc, SelTo + 1)
              end == SelFrom + Len(replacement)
          IN  /\ lastUsedColor' = colorChoice
              /\ doc' = newDoc
              /\ selection' = [anchor |-> end, head |-> end]
              /\ cursor' = offsetToPos(newDoc, end)
              /\ lastOp' = [kind |-> "add",
                            ann  |-> [from  |-> offsetToPos(doc, SelFrom),
                                      to    |-> offsetToPos(doc, SelTo),
                                      text  |-> adding.selectionText,
                                      note  |-> noteContent,
                                      color |-> colorChoice],
                            replacement |-> replacement]
    /\ prev' = doc
    /\ edits' = edits + 1
    /\ request' = [request EXCEPT !.calls = @ + 1, !.closed = "submit"]
    /\ ui' = close(Dialog).ui
    /\ adding' = close(Dialog).adding
    /\ modal' = close(Dialog).modal
    /\ UNCHANGED <<editorFrame, matches, existing, notice>>

\* The add dialog's cancel button: close, no callback.
CancelAdd ==
    /\ ui = "addModal"
    /\ request' = [request EXCEPT !.closed = "cancel"]
    /\ ui' = close(Dialog).ui
    /\ adding' = close(Dialog).adding
    /\ modal' = close(Dialog).modal
    /\ UNCHANGED <<editorFrame, prev, doc, resolveVars, lastOp, edits, selection,
                   notice, lastUsedColor>>

\* handleEditCommand, from the command palette or from the menu's edit item:
\* the annotation under the cursor is resolved and the modal opened for it.
HandleEditCommand ==
    /\ ui \in {"idle", "menu"}
    /\ edits < EditBudget
    /\ \E found \in {findAnnotationAtCursor(doc, cursor)} :
          /\ modal' = found
          /\ ui' = IF found.found THEN "modal" ELSE "idle"
          /\ notice' = IF found.found THEN NoNotice ELSE NO_ANNOTATION
          /\ request' = [Request("edit") EXCEPT !.dialog = found.found]
    /\ existing' = NoAnnotation
    /\ UNCHANGED <<editorFrame, prev, doc, cursor, lastOp, edits, selection,
                   adding, lastUsedColor>>

\* AnnotationModal.submit: onSubmit(newNote, newColor), then close.
SubmitModal ==
    /\ ui = "modal"
    /\ \E newNote \in NewNotes, newColor \in Palette :
          Replace("edit", modal, editReplacement(modal, newNote, newColor))
    /\ request' = [request EXCEPT !.calls = @ + 1, !.closed = "submit"]
    /\ ui' = close(Dialog).ui
    /\ adding' = close(Dialog).adding
    /\ modal' = close(Dialog).modal
    /\ UNCHANGED <<editorFrame, existing, notice, lastUsedColor>>

\* The modal's cancel button: close, no callback.
CancelModal ==
    /\ ui = "modal"
    /\ request' = [request EXCEPT !.closed = "cancel"]
    /\ ui' = close(Dialog).ui
    /\ adding' = close(Dialog).adding
    /\ modal' = close(Dialog).modal
    /\ UNCHANGED <<editorFrame, prev, doc, resolveVars, lastOp, edits, selection,
                   notice, lastUsedColor>>

\* A click on a color of the menu's color submenu: the annotation captured
\* when the menu was built is rewritten.
ChangeColor ==
    /\ ui = "menu"
    /\ \E color \in Palette :
          Replace("color", existing, colorReplacement(existing, color))
    /\ ui' = "idle"
    /\ existing' = NoAnnotation
    /\ notice' = NoNotice
    /\ request' = Request("color")
    /\ UNCHANGED <<editorFrame, modal, adding, lastUsedColor>>

\* handleDeleteCommand, from the command palette or from the menu's delete
\* item.
HandleDeleteCommand ==
    /\ ui \in {"idle", "menu"}
    /\ edits < EditBudget
    /\ \E found \in {findAnnotationAtCursor(doc, cursor)} :
          IF found.found
          THEN /\ Replace("delete", found, deleteReplacement(found))
               /\ notice' = NoNotice
          ELSE /\ notice' = NO_ANNOTATION
               /\ UNCHANGED <<doc, cursor, prev, lastOp, edits, selection>>
    /\ ui' = "idle"
    /\ existing' = NoAnnotation
    /\ request' = Request("delete")
    /\ UNCHANGED <<editorFrame, modal, adding, lastUsedColor>>

Next ==
    \/ SetCursor
    \/ HandleContextMenu
    \/ DismissMenu
    \/ HandleEditCommand
    \/ SubmitModal
    \/ CancelModal
    \/ ChangeColor
    \/ HandleDeleteCommand

Spec == Init /\ [][Next]_vars

\* The span of the annotation of the last replacement, in the text before it.
OpStart == posToOffset(prev, lastOp.ann.from)
OpEnd == posToOffset(prev, lastOp.ann.to)

\* C5: visible text is preserved by every mutation of a marker: after an
\* edit or a color change the marker matched at the old marker's start has
\* the old marker's visible text; after a delete the text is the previous
\* text with the marker's span replaced by exactly its visible text.
C5_VisibleTextPreserved ==
    /\ lastOp.kind \in {"edit", "color"} =>
          \E i \in 1..Len(AllMatches(doc, 0)) :
             LET m == AllMatches(doc, 0)[i]
             IN  m.index = OpStart /\ m.text = lastOp.ann.text
    /\ lastOp.kind = "delete" =>
          doc = SubSeq(prev, 1, OpStart) \o lastOp.ann.text \o From(prev, OpEnd + 1)

\* C5 witness: a marker whose visible text spans two lines has been edited
\* (new note, new color) and the document changed.
C5_Witness ==
    /\ lastOp.kind = "edit"
    /\ Contains(lastOp.ann.text, "\n")
    /\ doc # prev

(***************************************************************************)
(* Add specification: a document is open with a selection; the user runs   *)
(* the add, edit and delete commands, uses the context menu and answers    *)
(* the dialogs.                                                            *)
(***************************************************************************)

AddDocs ==
    { <<"a", " ", "\n", "b">>,
      Flatten(<< <<"x">>, MARKER_A, <<"y">> >>) }

\* The ends of the drawn selections are at most this far from a landmark of
\* the text.
MaxStopDistance == 1

\* The landmarks of a text: its two ends and, for each marker, its start,
\* the end of its start literal, the two ends of its visible text, its end.
Landmarks(text) ==
    LET ms == AllMatches(text, 0)
    IN  {0, Len(text)} \cup
        UNION { { ms[k].index,
                  ms[k].index + Len(NESTED_LIT),
                  MatchEnd(ms[k]) - Len(CLOSE_LIT) - Len(ms[k].text),
                  MatchEnd(ms[k]) - Len(CLOSE_LIT),
                  MatchEnd(ms[k]) } : k \in 1..Len(ms) }

SelectionStops(text) ==
    Let(Landmarks(text), LAMBDA ls :
        { o \in 0..Len(text) :
            \E l \in ls :
                o - l <= MaxStopDistance /\ l - o <= MaxStopDistance })

InitAdd ==
    /\ doc \in AddDocs
    /\ \E a \in SelectionStops(doc), h \in SelectionStops(doc) :
          /\ selection = [anchor |-> a, head |-> h]
          /\ cursor = offsetToPos(doc, h)
    /\ lastUsedColor \in Palette
    /\ existing = NoAnnotation
    /\ matches = <<>>
    /\ ui = "idle"
    /\ modal = NoAnnotation
    /\ lastOp = NoOp
    /\ edits = 0
    /\ adding = NoAdding
    /\ notice = NoNotice
    /\ request = NoRequest
    /\ prev = NoString
    /\ normChanged = FALSE /\ passes = 0 /\ canonical = FALSE
    /\ pc = "editor"
    /\ CodecIdle
    /\ decorations = <<>>
    /\ BulkIdle
    /\ PluginIdle

NextAdd ==
    \/ HandleAddCommand
    \/ HandleContextMenu
    \/ DismissMenu
    \/ ClickAddOnMarker
    \/ ClickAdd
    \/ SubmitAdd
    \/ CancelAdd
    \/ HandleEditCommand
    \/ SubmitModal
    \/ CancelModal
    \/ ChangeColor
    \/ HandleDeleteCommand

SpecAdd == InitAdd /\ [][NextAdd]_vars

\* C11: insert produces one well-formed marker: for a selected text v
\* without '</span>', the add replaces the selection with exactly the
\* template around escapeDataNote(n) and v, with class "ob-comment" for the
\* default color and "ob-comment " + c otherwise, and a scan of the
\* replacement yields exactly one match, spanning all of it, that captures
\* c, escapeDataNote(n) and v.
C11_InsertWellFormed ==
    (lastOp.kind = "add" /\ ~includes(lastOp.ann.text, CLOSE_LIT)) =>
        LET n == lastOp.ann.note
            c == lastOp.ann.color
            v == lastOp.ann.text
            expected == OPEN_LIT \o (IF c = <<>> THEN <<>> ELSE <<" ">> \o c)
                        \o NOTE_LIT \o escapeDataNote(n) \o QGT_LIT \o v \o CLOSE_LIT
            ms == AllMatches(lastOp.replacement, 0)
        IN  /\ lastOp.replacement = expected
            /\ doc = SubSeq(prev, 1, OpStart) \o expected \o From(prev, OpEnd + 1)
            /\ SubSeq(prev, OpStart + 1, OpEnd) = v
            /\ Len(ms) = 1
            /\ ms[1].index = 0
            /\ ms[1].full = expected
            /\ ms[1].color = c
            /\ ms[1].note = escapeDataNote(n)
            /\ ms[1].text = v

\* C11 witness: a text holding a line break was annotated in a color of the
\* palette with a note holding a quote, a line break and a '>'.
C11_Witness ==
    /\ lastOp.kind = "add"
    /\ Contains(lastOp.ann.text, "\n")
    /\ lastOp.ann.color # <<>>
    /\ Contains(lastOp.ann.note, "\"")
    /\ Len(AllMatches(doc, 0)) = 1

\* The add requests: the command, the menu's add item with the cursor on a
\* marker, the menu's add item with the cursor on none.
AddRequests == {"add", "menu add on marker", "menu add"}

\* C13: nested annotations are rejected on every add path: an add request
\* whose selected text holds the start literal '<span class="ob-comment"'
\* opens no dialog and leaves the text unchanged.
C13_NestedRejected ==
    (request.cmd \in AddRequests /\ includes(request.sel, NESTED_LIT)) =>
        (~request.dialog /\ doc = request.doc)

\* C14: a request whose precondition fails does not mutate the document: an
\* add with an empty selection, an edit or a delete with no marker holding
\* the cursor, each show a notice, open no dialog and leave the text
\* unchanged.
C14_FailedPreconditionNoMutation ==
    /\ (request.cmd = "add" /\ request.sel = <<>>) =>
          (notice = NO_SELECTION /\ ~request.dialog /\ doc = request.doc)
    /\ (request.cmd = "menu add on marker" /\ request.sel = <<>>) =>
          (notice = SELECT_FIRST /\ ~request.dialog /\ doc = request.doc)
    /\ (request.cmd \in {"edit", "delete"} /\ ~request.found) =>
          (notice = NO_ANNOTATION /\ ~request.dialog /\ doc = request.doc)
    /\ (request.cmd # "none" /\ ~request.dialog) => ui \notin {"modal", "addModal"}

\* C14 witness: a delete was asked for with the cursor in a line of plain
\* text, and answered by the notice.
C14_Witness ==
    /\ request.cmd = "delete"
    /\ ~request.found
    /\ notice = NO_ANNOTATION
    /\ edits = 0

\* C20: at most one response per dialog request: the submit callback of a
\* dialog is invoked at most once, and not at all when the dialog is
\* cancelled, which leaves the text and the remembered color as they were.
C20_AtMostOneResponse ==
    request.cmd # "none" =>
        /\ request.calls <= 1
        /\ request.closed = "cancel" =>
              /\ request.calls = 0
              /\ doc = request.doc
              /\ lastUsedColor = request.color
        /\ request.closed = "submit" => (request.calls = 1 /\ request.dialog)

\* C20 witness: an add dialog was answered once, with another color than
\* the remembered one.
C20_Witness ==
    /\ request.cmd = "add"
    /\ request.closed = "submit"
    /\ request.calls = 1
    /\ lastUsedColor # request.color
    /\ ui = "idle"

(***************************************************************************)
(* Live preview specification: the view plugin holds the decorations of    *)
(* the text and selection it last saw; every change of the selection or of *)
(* the text rebuilds them.                                                 *)
(***************************************************************************)

\* builder.add(from, to, Decoration.replace({}))
Hide(from, to) ==
    [from |-> from, to |-> to, kind |-> "replace", class |-> <<>>, note |-> <<>>]

\* builder.add(from, to, Decoration.mark({class, attributes: {"data-note"}}))
Mark(from, to, class, noteText) ==
    [from |-> from, to |-> to, kind |-> "mark", class |-> class, note |-> noteText]

\* s.indexOf(c), 0-based, -1 when c does not occur.
indexOf(s, c) == IndexOf(s, <<c>>, 1) - 1

\* The while loop of buildDecorations: the builder.add calls it makes from
\* COMMENT_REGEX.lastIndex = lastIndex on.
RECURSIVE decorateLoop(_, _, _, _)
decorateLoop(text, cursorFrom, cursorTo, lastIndex) ==
    Let(COMMENT_REGEX_exec(text, lastIndex), LAMBDA match :
        IF IsNull(match) THEN <<>>
        ELSE LET fullMatch == match.full
                 visibleText == match.text
                 noteText == decodeDataNote(match.note)
                 startPos == match.index
                 endPos == startPos + Len(fullMatch)
                 openingTagLength == indexOf(fullMatch, ">") + 1
                 openingTagFrom == startPos
                 openingTagTo == startPos + openingTagLength
                 contentFrom == openingTagTo
                 contentTo == contentFrom + Len(visibleText)
                 closingTagFrom == contentTo
                 closingTagTo == endPos
                 isCursorInside ==
                     \/ cursorFrom >= startPos /\ cursorFrom <= endPos
                     \/ cursorTo >= startPos /\ cursorTo <= endPos
             IN  (IF isCursorInside THEN <<>>
                  ELSE << Hide(openingTagFrom, openingTagTo),
                          Mark(contentFrom, contentTo,
                               buildAnnotationClass(match.color), noteText),
                          Hide(closingTagFrom, closingTagTo) >>)
                 \o decorateLoop(text, cursorFrom, cursorTo, endPos))

\* buildDecorations(view) with view.state.doc = text and
\* view.state.selection.main = {from: cursorFrom, to: cursorTo}.
buildDecorations(text, cursorFrom, cursorTo) ==
    decorateLoop(text, cursorFrom, cursorTo, 0)

DecorDocs ==
    { Flatten(<< <<"x">>, MARKER_A, MARKER_A >>),
      Flatten(<< MARKER_B, <<"\n">>, MARKER_A >>) }

\* constructor(view): this.decorations = this.buildDecorations(view)
InitDecor ==
    /\ doc \in DecorDocs
    /\ selection = [anchor |-> 0, head |-> 0]
    /\ cursor = [line |-> 0, ch |-> 0]
    /\ decorations = buildDecorations(doc, 0, 0)
    /\ edits = 0
    /\ pc = "preview"
    /\ matches = <<>> /\ existing = NoAnnotation
    /\ ui = "idle" /\ modal = NoAnnotation /\ lastOp = NoOp
    /\ adding = NoAdding /\ notice = NoNotice
    /\ lastUsedColor = DEFAULT_COLOR /\ request = NoRequest
    /\ CodecIdle
    /\ NormIdle
    /\ BulkIdle
    /\ PluginIdle

\* An update that rebuilds on a document change only.
needsRebuild_docOnly(u) == u.docChanged

\* update.docChanged || update.viewportChanged || update.selectionSet
needsRebuild(u) == u.docChanged \/ u.viewportChanged \/ u.selectionSet

\* update(update): this.decorations after the update, from this.decorations
\* before it and update.view's text and main selection.
update(u, stored, text, from, to) ==
    IF needsRebuild(u) THEN buildDecorations(text, from, to) ELSE stored

\* update(update) with update.selectionSet: the user moved the cursor or
\* selected a range (one such change is explored per text).
SelectionSet ==
    /\ pc = "preview"
    /\ edits < MaxEdits
    /\ \E a \in SelectionStops(doc), h \in SelectionStops(doc) :
          /\ selection' = [anchor |-> a, head |-> h]
          /\ cursor' = offsetToPos(doc, h)
    /\ selection' # selection
    /\ decorations' = update([docChanged |-> FALSE, viewportChanged |-> FALSE,
                               selectionSet |-> TRUE],
                              decorations, doc, SelFrom', SelTo')
    /\ pc' = "selected"
    /\ UNCHANGED <<codecVars, normVars, bulkVars, pluginVars, doc, matches, existing,
                   editorVars, adding, notice, lastUsedColor, request>>

\* What the user types.
TYPED == <<"z">>

\* The lines the editor can be scrolled by.
MaxViewport == 1

\* update(update) with update.docChanged: the user typed a character at the
\* cursor.
DocChanged ==
    /\ edits < MaxEdits
    /\ selection.anchor = selection.head
    /\ doc' = SubSeq(doc, 1, selection.head) \o TYPED \o From(doc, selection.head + 1)
    /\ selection' = [anchor |-> selection.head + 1, head |-> selection.head + 1]
    /\ cursor' = offsetToPos(doc', selection.head + 1)
    /\ decorations' = update([docChanged |-> TRUE, viewportChanged |-> FALSE,
                               selectionSet |-> FALSE],
                              decorations, doc', selection.head + 1, selection.head + 1)
    /\ edits' = edits + 1
    /\ pc' = "preview"
    /\ UNCHANGED <<codecVars, normVars, bulkVars, pluginVars, matches, existing,
                   ui, modal, lastOp, adding, notice, lastUsedColor, request>>

\* update(update) with update.viewportChanged: the editor is scrolled.
ViewportChanged ==
    /\ viewport < MaxViewport
    /\ viewport' = viewport + 1
    /\ decorations' = update([docChanged |-> FALSE, viewportChanged |-> TRUE,
                               selectionSet |-> FALSE],
                              decorations, doc, SelFrom, SelTo)
    /\ UNCHANGED <<codecVars, normVars, bulkVars, doc, pc, resolveVars, editorVars,
                   addVars, tooltip, reencoded, regexLastIndex, scan, settings>>

NextDecor == SelectionSet \/ DocChanged \/ ViewportChanged

SpecDecor == InitDecor /\ [][NextDecor]_vars

\* A marker is revealed when an end of the selection is in its closed
\* interval.
Revealed(m) ==
    \/ m.index <= SelFrom /\ SelFrom <= MatchEnd(m)
    \/ m.index <= SelTo /\ SelTo <= MatchEnd(m)

\* The markers that are not revealed, in text order.
Unrevealed == SelectSeq(AllMatches(doc, 0), LAMBDA m : ~Revealed(m))

\* Where the opening delimiter of marker m ends and its visible text starts.
ContentStart(m) == MatchEnd(m) - Len(CLOSE_LIT) - Len(m.text)

\* The reveal rule alone: a marker has decorations iff it is not revealed,
\* and then three: a hide from its start, a mark carrying the decoded note
\* and the class built from its color, a hide up to its end.
RevealRule ==
    /\ Len(decorations) = 3 * Len(Unrevealed)
    /\ \A k \in 1..Len(Unrevealed) :
          LET m == Unrevealed[k]
              d1 == decorations[3 * k - 2]
              d2 == decorations[3 * k - 1]
              d3 == decorations[3 * k]
          IN  /\ d1.kind = "replace" /\ d1.from = m.index
              /\ d2.kind = "mark"
              /\ d2.class = buildAnnotationClass(m.color)
              /\ d2.note = decodeDataNote(m.note)
              /\ d3.kind = "replace" /\ d3.to = MatchEnd(m)

\* C15: reveal rule of the decoration planner: a marker with span [s, e)
\* has no decoration iff s <= from <= e or s <= to <= e; every other
\* marker, one enclosed by the selection included, has exactly three: a
\* hide on its opening delimiter, a mark on its visible text carrying the
\* decoded note and the class built from its color, a hide on its closing
\* delimiter.
C15_RevealAndDecorate ==
    /\ RevealRule
    /\ \A k \in 1..Len(Unrevealed) :
          LET m == Unrevealed[k]
          IN  /\ decorations[3 * k - 2] = Hide(m.index, ContentStart(m))
              /\ decorations[3 * k - 1] =
                    Mark(ContentStart(m), ContentStart(m) + Len(m.text),
                         buildAnnotationClass(m.color), decodeDataNote(m.note))
              /\ decorations[3 * k] =
                    Hide(MatchEnd(m) - Len(CLOSE_LIT), MatchEnd(m))

\* The three spans of each decorated marker are contiguous and partition
\* its span, in the order opening, content, closing.
SpansPartition ==
    \A k \in 1..Len(Unrevealed) :
       LET m == Unrevealed[k]
           d1 == decorations[3 * k - 2]
           d2 == decorations[3 * k - 1]
           d3 == decorations[3 * k]
       IN  /\ d1.from = m.index /\ d1.from < d1.to
           /\ d1.to = d2.from /\ d2.from <= d2.to
           /\ d2.to = d3.from /\ d3.from < d3.to
           /\ d3.to = MatchEnd(m)

\* C16: sub-ranges of a decorated marker, a legacy note with a raw '>'
\* included: the opening, content and closing spans are contiguous and
\* partition [start, end) in that order, the text in the content span is the
\* captured visible text, and the hidden closing span is exactly '</span>'.
C16_SubRanges ==
    /\ Len(decorations) = 3 * Len(Unrevealed)
    /\ SpansPartition
    /\ \A k \in 1..Len(Unrevealed) :
          LET m == Unrevealed[k]
              d2 == decorations[3 * k - 1]
              d3 == decorations[3 * k]
          IN  /\ SubSeq(doc, d2.from + 1, d2.to) = m.text
              /\ SubSeq(doc, d3.from + 1, d3.to) = CLOSE_LIT

\* C24: the decoration set is never stale: after the construction of the
\* view plugin and after every update, the stored decorations are those
\* buildDecorations gives from scratch for the current text and the current
\* main selection.
C24_NeverStale == decorations = buildDecorations(doc, SelFrom, SelTo)

\* C24 witness: the cursor was set onto a marker, a character was typed
\* there and the editor was scrolled; that marker is revealed.
C24_Witness ==
    /\ edits = 1
    /\ viewport = 1
    /\ Len(decorations) < 3 * Len(AllMatches(doc, 0))
    /\ decorations # buildDecorations(doc, 0, 0)

(***************************************************************************)
(* Bulk normalization specification: normalizeAllMarkdownFiles scans the   *)
(* vault, asks for confirmation, then repairs the files one by one.  Each  *)
(* await of the function is a step; a read or a write may fail, the batch  *)
(* may be interrupted, and a file may change while the dialog is open.     *)
(***************************************************************************)

\* The Markdown files of the vault.
NumFiles == 3

\* A marker whose note holds a raw line break, as old versions wrote it.
LEGACY_MARKER == SpanHtml(OB_COMMENT, <<"a", "\n", "b">>, VISIBLE)

FileTexts == { <<"x">>, MARKER_A, LEGACY_MARKER }

\* The Notice texts.
SCAN_START == <<"scanning the vault">>
NOTHING_TO_FIX == <<"no annotation needs repair">>
FIXED(fixedCount) == <<"repaired files:", fixedCount>>

InitBulk ==
    /\ vault \in [1..NumFiles -> FileTexts]
    /\ batch = NoBatch
    /\ writes = <<>>
    /\ snapshot = <<>>
    /\ notice = NoNotice
    /\ edits = 0
    /\ pc = "vault"
    /\ doc = <<>>
    /\ CodecIdle
    /\ NormIdle
    /\ ResolveIdle
    /\ ui = "idle" /\ modal = NoAnnotation /\ lastOp = NoOp
    /\ selection = [anchor |-> 0, head |-> 0] /\ adding = NoAdding
    /\ lastUsedColor = DEFAULT_COLOR /\ request = NoRequest
    /\ decorations = <<>>
    /\ PluginIdle

\* What no step of the batch touches.
bulkFrame ==
    <<codecVars, normVars, resolveVars, doc, pc, ui, modal, lastOp, selection,
      adding, lastUsedColor, request, decorations, pluginVars>>

\* normalizeAllMarkdownFiles up to its first await: the notice, files =
\* getMarkdownFiles(), filesToFix = [].
StartBulk ==
    /\ batch.phase = "idle"
    /\ notice' = SCAN_START
    /\ batch' = [phase       |-> "scan",
                 i           |-> 1,
                 filesToFix  |-> <<>>,
                 fixedCount  |-> 0,
                 original    |-> NoString,
                 confirmed   |-> FALSE,
                 failed      |-> 0]
    /\ UNCHANGED <<bulkFrame, vault, writes, snapshot, edits>>

\* A cancel button that runs the repair all the same.
closeConfirm_runs(b) == [b EXCEPT !.phase = "read", !.i = 1, !.fixedCount = 0]

\* The confirmation dialog is closed by its cancel button: this.close().
closeConfirm(b) == [b EXCEPT !.phase = "done"]

\* A final notice that reports the number of files listed by the scan.
reportCount_listed(b) == Len(b.filesToFix)

\* The count the final notice reports.
reportCount(b) == b.fixedCount

\* One turn of the scan loop: file i is read and transformed, and pushed to
\* filesToFix if the transform reports changed; after the last file, the
\* notice when nothing is to fix, the confirmation dialog otherwise.
ScanFile ==
    /\ batch.phase = "scan"
    /\ LET changed == normalizeAnnotationsInText(vault[batch.i]).changed
           filesToFix == IF changed THEN Append(batch.filesToFix, batch.i)
                         ELSE batch.filesToFix
           last == batch.i = NumFiles
       IN  /\ batch' = [batch EXCEPT
                          !.filesToFix = filesToFix,
                          !.i = @ + 1,
                          !.phase = IF ~last THEN "scan"
                                    ELSE IF Len(filesToFix) = 0 THEN "done"
                                    ELSE "confirm"]
           /\ notice' = IF last /\ Len(filesToFix) = 0 THEN NOTHING_TO_FIX
                        ELSE notice
    /\ UNCHANGED <<bulkFrame, vault, writes, snapshot, edits>>

\* A file changes while the confirmation dialog is open (the user, a sync).
ExternalEdit ==
    /\ batch.phase = "confirm"
    /\ edits < MaxEdits
    /\ \E f \in 1..NumFiles, t \in FileTexts :
          /\ t # vault[f]
          /\ vault' = [vault EXCEPT ![f] = t]
    /\ edits' = edits + 1
    /\ UNCHANGED <<bulkFrame, batch, writes, snapshot, notice>>

\* The dialog's cancel button.
CancelFix ==
    /\ batch.phase = "confirm"
    /\ batch' = closeConfirm(batch)
    /\ snapshot' = IF batch'.phase = "done" THEN snapshot ELSE vault
    /\ UNCHANGED <<bulkFrame, vault, writes, notice, edits>>

\* The dialog's confirm button: this.close(); this.onConfirm(), which runs
\* up to its first await with fixedCount = 0.
ConfirmFix ==
    /\ batch.phase = "confirm"
    /\ batch' = [batch EXCEPT !.phase = "read", !.i = 1, !.fixedCount = 0,
                              !.confirmed = TRUE]
    /\ snapshot' = vault
    /\ UNCHANGED <<bulkFrame, vault, writes, notice, edits>>

\* const original = await this.app.vault.read(file)
ExecRead ==
    /\ batch.phase = "read"
    /\ batch' = [batch EXCEPT !.original = vault[batch.filesToFix[batch.i]],
                              !.phase = "write"]
    /\ UNCHANGED <<bulkFrame, vault, writes, snapshot, notice, edits>>

\* The rest of the turn: the transform, vault.modify and fixedCount++ if it
\* reports changed; after the last file, the notice with the count.
ExecWrite ==
    /\ batch.phase = "write"
    /\ LET file == batch.filesToFix[batch.i]
           r == normalizeAnnotationsInText(batch.original)
           fixedCount == IF r.changed THEN batch.fixedCount + 1 ELSE batch.fixedCount
           last == batch.i = Len(batch.filesToFix)
       IN  /\ vault' = IF r.changed THEN [vault EXCEPT ![file] = r.text] ELSE vault
           /\ writes' = IF r.changed
                        THEN Append(writes, [file |-> file, read |-> batch.original,
                                             text |-> r.text])
                        ELSE writes
           /\ batch' = [batch EXCEPT !.fixedCount = fixedCount,
                                     !.i = @ + 1,
                                     !.original = NoString,
                                     !.phase = IF last THEN "done" ELSE "read"]
           /\ notice' = IF last
                        THEN FIXED(reportCount([batch EXCEPT !.fixedCount = fixedCount]))
                        ELSE notice
    /\ UNCHANGED <<bulkFrame, snapshot, edits>>

\* vault.read or vault.modify rejects: nothing catches it, the async
\* function ends there.
FileFails ==
    /\ batch.phase \in {"scan", "read", "write"}
    /\ batch' = [batch EXCEPT !.phase = "rejected", !.failed = @ + 1]
    /\ UNCHANGED <<bulkFrame, vault, writes, snapshot, notice, edits>>

\* The application is closed or crashes while the batch is at an await.
Interrupt ==
    /\ batch.phase \in {"scan", "read", "write"}
    /\ batch' = [batch EXCEPT !.phase = "interrupted"]
    /\ UNCHANGED <<bulkFrame, vault, writes, snapshot, notice, edits>>

NextBulk ==
    \/ StartBulk
    \/ ScanFile
    \/ ExternalEdit
    \/ CancelFix
    \/ ConfirmFix
    \/ ExecRead
    \/ ExecWrite
    \/ FileFails
    \/ Interrupt

SpecBulk == InitBulk /\ [][NextBulk]_vars

\* C17: bulk normalization mutates nothing before confirmation: no file is
\* written during the scan, none when the scan finds nothing to repair, none
\* when the dialog is closed without confirming.
C17_NoWriteBeforeConfirm ==
    batch.phase # "idle" =>
        /\ ~batch.confirmed => writes = <<>>
        /\ batch.phase \in {"scan", "confirm"} => writes = <<>>
        /\ notice = NOTHING_TO_FIX => (writes = <<>> /\ batch.phase = "done")

\* C17 witness: the scan listed files and the dialog was closed without
\* confirming.
C17_Witness ==
    /\ batch.phase = "done"
    /\ ~batch.confirmed
    /\ Len(batch.filesToFix) >= 2
    /\ writes = <<>>

\* The files written so far.
Written == {writes[k].file : k \in 1..Len(writes)}

\* C18: file-by-file crash consistency: once the execute phase runs, at
\* every step each file is either what it was before the batch or the
\* normalized form of what was read from it; the files are taken one at a
\* time in the listed order, written only if the transform reports changed;
\* the count reported at the end is the number of files written.
C18_FileByFile ==
    (batch.phase # "idle" /\ batch.confirmed) =>
        /\ \A f \in 1..NumFiles :
              IF f \in Written
              THEN \E k \in 1..Len(writes) :
                      /\ writes[k].file = f
                      /\ writes[k].read = snapshot[f]
                      /\ normalizeAnnotationsInText(writes[k].read).changed
                      /\ vault[f] = normalizeAnnotationsInText(writes[k].read).text
              ELSE vault[f] = snapshot[f]
        /\ \A k \in 1..Len(writes) :
              \E j \in 1..(batch.i - 1) :
                 /\ batch.filesToFix[j] = writes[k].file
                 /\ \A l \in 1..(k - 1) :
                       \E h \in 1..(j - 1) : batch.filesToFix[h] = writes[l].file
        /\ \A j \in 1..(batch.i - 1) :
              normalizeAnnotationsInText(snapshot[batch.filesToFix[j]]).changed
                 => batch.filesToFix[j] \in Written
        /\ batch.fixedCount = Len(writes)
        /\ batch.phase = "done" => notice = FIXED(Len(writes))

\* C18 witness: the batch was interrupted after it wrote one file and before
\* it wrote another that needs repair.
C18_Witness ==
    /\ batch.phase = "interrupted"
    /\ batch.confirmed
    /\ Len(writes) = 1
    /\ \E f \in 1..NumFiles :
          /\ f \notin Written
          /\ normalizeAnnotationsInText(vault[f]).changed

\* The final notice tells how many files failed.
NoticeShowsFailures == Len(notice) >= 3 /\ notice[3] = batch.failed

\* C19: a failing file does not silently abort the batch: when a read, a
\* transform or a write of a file fails, in the scan or in the execute
\* phase, the run goes on with the remaining files and its final notice
\* gives the count of failures beside the count of repaired files.
C19_FailureDoesNotAbort ==
    (batch.phase # "idle" /\ batch.failed > 0) =>
        /\ batch.phase # "rejected"
        /\ batch.phase = "done" => NoticeShowsFailures

(***************************************************************************)
(* Inverse specification: a stored string is drawn, decoded, then encoded  *)
(* again.                                                                  *)
(***************************************************************************)

InitInverse ==
    /\ build \in Builds
    /\ note = NoString
    /\ encoded \in Notes
    /\ decoded = NoString
    /\ pc = "encoded"
    /\ doc = <<>>
    /\ NormIdle
    /\ ResolveIdle
    /\ EditorIdle

ReencodeNote ==
    /\ pc = "decoded"
    /\ reencoded' = Encode(build, decoded)
    /\ pc' = "reencoded"
    /\ UNCHANGED <<codecVars, doc, normVars, resolveVars, editorVars, addVars,
                   decorations, bulkVars, tooltip, viewport, regexLastIndex,
                   scan, settings>>

NextInverse == DecodeNote \/ ReencodeNote

SpecInverse == InitInverse /\ [][NextInverse]_vars

\* C23: decodeDataNote is a two-sided inverse of escapeDataNote: for every
\* string e, whether escapeDataNote produced it or not, once e has been
\* decoded and the result encoded, the encoded string equals e.
C23_TwoSidedInverse == pc = "reencoded" => reencoded = encoded

(***************************************************************************)
(* Hover specification: a marker created with a note is collapsed by the   *)
(* live preview; the mouse and the keyboard act on the document's          *)
(* listeners, which show and hide the tooltip.  The settings are the       *)
(* defaults: annotations shown, no icon-only mode.                         *)
(***************************************************************************)

HoverNotes ==
    { <<"m">>,
      <<"a", "\n", "b">>,
      <<"&", "l", "t", ";">>,
      <<"&", "a", "m", "p", ";">> }

\* The replacement the add dialog's submit writes for a selection VISIBLE.
Created(b, n) ==
    IF b = "main" THEN SpanHtml(OB_COMMENT, escapeDataNote_main(n), VISIBLE)
    ELSE addReplacement(VISIBLE, n, DEFAULT_COLOR)

InitHover ==
    /\ build \in Builds
    /\ note \in HoverNotes
    /\ encoded = NoString /\ decoded = NoString
    /\ doc = <<"x">> \o Created(build, note) \o <<"\n">> \o MARKER_A
    /\ selection = [anchor |-> 0, head |-> 0]
    /\ cursor = [line |-> 0, ch |-> 0]
    /\ decorations = buildDecorations(doc, 0, 0)
    /\ edits = 0
    /\ pc = "preview"
    /\ matches = <<>> /\ existing = NoAnnotation
    /\ ui = "idle" /\ modal = NoAnnotation /\ lastOp = NoOp
    /\ adding = NoAdding /\ notice = NoNotice
    /\ lastUsedColor = DEFAULT_COLOR /\ request = NoRequest
    /\ NormIdle
    /\ BulkIdle
    /\ PluginIdle

\* evt.target: the element under the pointer.  The span of a collapsed
\* marker carries class ob-comment and the data-note the decoration k gave
\* it; any other element of the page; the tooltip element.
Annotation(k) == [kind |-> "annotation", mark |-> k, note |-> decorations[k].note]
Elsewhere == [kind |-> "elsewhere", mark |-> 0, note |-> <<>>]
TooltipEl == [kind |-> "tooltip", mark |-> 0, note |-> <<>>]

Annotations ==
    {Annotation(k) : k \in {j \in 1..Len(decorations) : decorations[j].kind = "mark"}}

Targets == Annotations \cup {Elsewhere, TooltipEl}

\* showTooltip(evt, text)
showTooltip(b, text) ==
    [visible |-> TRUE,
     text    |-> IF b = "main" THEN text ELSE decodeDataNote(text)]

\* hideTooltip()
hideTooltip(t) == [t EXCEPT !.visible = FALSE]

\* The mouseover listener.
mouseover(b, t, target) ==
    IF target.kind = "annotation" /\ target.note # <<>>
    THEN showTooltip(b, target.note)
    ELSE t

\* The mouseout listener.
mouseout(t, target) ==
    IF target.kind = "annotation" THEN hideTooltip(t) ELSE t

\* The mousedown listener.
mousedown(b, t, target) ==
    IF b = "main" THEN hideTooltip(t)
    ELSE IF target.kind = "annotation" THEN t
    ELSE hideTooltip(t)

\* The click listener (src/main.ts registers none).
click(b, t, target) ==
    IF b = "main" THEN t
    ELSE IF target.kind = "annotation"
         THEN (IF target.note # <<>> THEN showTooltip(b, target.note) ELSE t)
    ELSE IF target.kind # "tooltip" THEN hideTooltip(t)
    ELSE t

\* What the listeners record of an event: the event, its target and whether
\* the tooltip was visible when it arrived.
Event(name, target) == [cmd |-> name, target |-> target, visible |-> tooltip.visible]

\* The pointer enters the span of a collapsed marker.
MouseOver ==
    /\ \E target \in Annotations :
          /\ tooltip' = mouseover(build, tooltip, target)
          /\ request' = Event("mouse over", target)
    /\ UNCHANGED <<codecVars, normVars, resolveVars, editorVars, bulkVars, doc, pc,
                   selection, adding, notice, lastUsedColor, decorations,
                   reencoded, viewport, regexLastIndex, scan, settings>>

\* The pointer leaves the span of a collapsed marker.
MouseOut ==
    /\ \E target \in Annotations :
          /\ tooltip' = mouseout(tooltip, target)
          /\ request' = Event("mouse out", target)
    /\ UNCHANGED <<codecVars, normVars, resolveVars, editorVars, bulkVars, doc, pc,
                   selection, adding, notice, lastUsedColor, decorations,
                   reencoded, viewport, regexLastIndex, scan, settings>>

\* A mouse click: the mousedown listener, then the click listener, for the
\* same target.
MouseClick ==
    /\ \E target \in Targets :
          /\ tooltip' = click(build, mousedown(build, tooltip, target), target)
          /\ request' = Event("mouse click", target)
    /\ UNCHANGED <<codecVars, normVars, resolveVars, editorVars, bulkVars, doc, pc,
                   selection, adding, notice, lastUsedColor, decorations,
                   reencoded, viewport, regexLastIndex, scan, settings>>

\* A key is pressed: the keydown listener.
KeyDown ==
    /\ tooltip' = hideTooltip(tooltip)
    /\ request' = Event("key down", Elsewhere)
    /\ UNCHANGED <<codecVars, normVars, resolveVars, editorVars, bulkVars, doc, pc,
                   selection, adding, notice, lastUsedColor, decorations,
                   reencoded, viewport, regexLastIndex, scan, settings>>

NextHover == MouseOver \/ MouseOut \/ MouseClick \/ KeyDown

SpecHover == InitHover /\ [][NextHover]_vars

\* C21: the tooltip shows the annotation content exactly: after the pointer
\* entered the collapsed marker that was created with the note, the tooltip
\* is visible and its text equals the note.
C21_TooltipShowsNote ==
    (request.cmd = "mouse over" /\ request.target.mark = 2) =>
        /\ tooltip.visible
        /\ tooltip.text = note

\* C22: the tooltip auto-hides on a mouse click or a key press: once a
\* mouse click, on an annotation or elsewhere, or a key-down event that
\* arrived while the tooltip was visible has been handled, the tooltip is
\* not visible.
C22_AutoHide ==
    (request.cmd \in {"mouse click", "key down"} /\ request.visible) =>
        ~tooltip.visible

(***************************************************************************)
(* Shared matcher specification: findAnnotationAtCursor,                   *)
(* normalizeAnnotationsInText and buildDecorations are called in any order *)
(* on one document; COMMENT_REGEX.lastIndex is what the previous call left.*)
(***************************************************************************)

SharedDocs ==
    { MARKER_A \o <<"x">> \o LEGACY_MARKER,
      MARKER_B \o <<"\n">> \o MARKER_A }

\* Where the cursor is put: the ends of the document and of each marker,
\* and the ends of each marker's visible text.
SharedStops(text) == Landmarks(text)

\* A scan that starts where the previous one stopped.
resetLastIndex_keep(stored) == stored

\* COMMENT_REGEX.lastIndex = 0
resetLastIndex(stored) == 0

\* COMMENT_REGEX.lastIndex when the loop of findAnnotationAtCursor is left:
\* the end of the match it returns, 0 after the exec that found none.
RECURSIVE findLastIndex(_, _, _)
findLastIndex(docText, cursorOffset, lastIndex) ==
    Let(COMMENT_REGEX_exec(docText, lastIndex), LAMBDA match :
        LET startOffset == match.index
            endOffset == startOffset + Len(match.full)
        IN  IF IsNull(match) THEN 0
            ELSE IF cursorOffset >= startOffset /\ cursorOffset <= endOffset
                 THEN endOffset
                 ELSE findLastIndex(docText, cursorOffset, endOffset))

\* The three functions, run with COMMENT_REGEX.lastIndex = stored on entry.
\* The local lastIndex of normalizeAnnotationsInText starts at 0 whatever
\* the matcher's position: the text before the first match is kept.
scanFind(docText, cursorOffset, stored) ==
    findLoop(docText, cursorOffset, resetLastIndex(stored))
scanNormalize(text, stored) ==
    Let(resetLastIndex(stored), LAMBDA start :
        normalizeLoop(text, start, SubSeq(text, 1, start), FALSE))
scanBuild(text, cursorFrom, cursorTo, stored) ==
    decorateLoop(text, cursorFrom, cursorTo, resetLastIndex(stored))

InitShared ==
    /\ doc \in SharedDocs
    /\ selection = [anchor |-> 0, head |-> 0]
    /\ cursor = [line |-> 0, ch |-> 0]
    /\ decorations = <<>>
    /\ regexLastIndex = 0
    /\ scan = NoScan
    /\ tooltip = NoTooltip /\ reencoded = NoString /\ viewport = 0
    /\ settings = DEFAULT_SETTINGS
    /\ edits = 0
    /\ pc = "scans"
    /\ matches = <<>> /\ existing = NoAnnotation
    /\ ui = "idle" /\ modal = NoAnnotation /\ lastOp = NoOp
    /\ adding = NoAdding /\ notice = NoNotice
    /\ lastUsedColor = DEFAULT_COLOR /\ request = NoRequest
    /\ CodecIdle
    /\ NormIdle
    /\ BulkIdle

sharedFrame ==
    <<codecVars, normVars, bulkVars, doc, pc, matches, editorVars, adding, notice,
      lastUsedColor, request, tooltip, reencoded, viewport, settings>>

\* findAnnotationAtCursor(editor) with the cursor at some offset.
CallFind ==
    /\ \E o \in SharedStops(doc) :
          /\ cursor' = offsetToPos(doc, o)
          /\ selection' = [anchor |-> o, head |-> o]
          /\ existing' = scanFind(doc, o, regexLastIndex)
          /\ regexLastIndex' = findLastIndex(doc, o, resetLastIndex(regexLastIndex))
          /\ scan' = [call |-> "find", offset |-> o, stored |-> regexLastIndex,
                      result |-> existing']
    /\ UNCHANGED <<sharedFrame, decorations>>

\* normalizeAnnotationsInText(text) of the document; its loop ends with the
\* exec that finds none, which leaves lastIndex at 0.
CallNormalize ==
    /\ regexLastIndex' = 0
    /\ scan' = [call |-> "normalize", offset |-> 0, stored |-> regexLastIndex,
                result |-> scanNormalize(doc, regexLastIndex)]
    /\ UNCHANGED <<sharedFrame, decorations, cursor, selection, existing>>

\* buildDecorations(view) with the main selection collapsed at some offset;
\* its loop ends with the exec that finds none.
CallBuild ==
    /\ \E o \in SharedStops(doc) :
          /\ cursor' = offsetToPos(doc, o)
          /\ selection' = [anchor |-> o, head |-> o]
          /\ decorations' = scanBuild(doc, o, o, regexLastIndex)
          /\ scan' = [call |-> "build", offset |-> o, stored |-> regexLastIndex,
                      result |-> decorations']
    /\ regexLastIndex' = 0
    /\ UNCHANGED <<sharedFrame, existing>>

NextShared == CallFind \/ CallNormalize \/ CallBuild

SpecShared == InitShared /\ [][NextShared]_vars

\* C27: scans are independent of the shared matcher state: whatever the
\* previous calls left in COMMENT_REGEX.lastIndex, the result of each call
\* is the result it gives as the first call on the same document and cursor
\* or selection; every exec that matches moves the scan forward, so every
\* loop ends.
C27_ScansIndependent ==
    /\ scan.call = "find" =>
          scan.result = findAnnotationAtCursor(doc, offsetToPos(doc, scan.offset))
    /\ scan.call = "normalize" =>
          scan.result = normalizeAnnotationsInText(doc)
    /\ scan.call = "build" =>
          scan.result = buildDecorations(doc, scan.offset, scan.offset)
    /\ \A start \in 0..Len(doc) :
          Let(COMMENT_REGEX_exec(doc, start), LAMBDA match :
              ~IsNull(match) => (match.index >= start /\ MatchEnd(match) > start))
    /\ regexLastIndex \in 0..Len(doc)

\* C27 witness: a scan that met a marker was made after a
\* findAnnotationAtCursor that returned at the first marker and left the
\* matcher in the middle of the document.
C27_Witness ==
    /\ scan.call \in {"normalize", "build", "find"}
    /\ scan.stored > 0
    /\ scan.stored < Len(doc)
    /\ \/ scan.call = "normalize" /\ scan.result.changed
       \/ scan.call = "build" /\ Len(scan.result) >= 3
       \/ scan.call = "find" /\ scan.result.found /\ scan.offset < scan.stored

(***************************************************************************)
(* Remembered color specification: the plugin is loaded with some default  *)
(* color; the user changes the default color in the settings tab, selects  *)
(* text, opens the add dialog with or without a forced color, submits or   *)
(* cancels it, edits the annotation under the cursor.                      *)
(***************************************************************************)

\* The values of the default-color dropdown.
ColorValues == Palette \cup {DEFAULT_COLOR}

InitColor ==
    /\ settings \in [defaultColor : ColorValues]
    /\ lastUsedColor = settings.defaultColor
    /\ doc = <<"a", " ", "b">>
    /\ selection = [anchor |-> 0, head |-> 1]
    /\ cursor = offsetToPos(doc, 1)
    /\ existing = NoAnnotation
    /\ matches = <<>>
    /\ ui = "idle"
    /\ modal = NoAnnotation
    /\ lastOp = NoOp
    /\ edits = 0
    /\ adding = NoAdding
    /\ notice = NoNotice
    /\ request = NoRequest
    /\ prev = NoString
    /\ normChanged = FALSE /\ passes = 0 /\ canonical = FALSE
    /\ pc = "session"
    /\ CodecIdle
    /\ decorations = <<>>
    /\ BulkIdle
    /\ tooltip = NoTooltip /\ reencoded = NoString /\ viewport = 0
    /\ regexLastIndex = 0 /\ scan = NoScan

\* The default-color dropdown of the settings tab: onChange(value).
ChangeDefaultColor ==
    /\ ui = "idle"
    /\ \E value \in ColorValues :
          /\ value # settings.defaultColor
          /\ settings' = [settings EXCEPT !.defaultColor = value]
          /\ lastUsedColor' = value
    /\ notice' = NoNotice
    /\ request' = NoRequest
    /\ UNCHANGED <<codecVars, normVars, resolveVars, editorVars, bulkVars, doc, pc,
                   selection, adding, decorations, tooltip, reencoded, viewport,
                   regexLastIndex, scan>>

\* The user selects the last character of the text.
SelectText ==
    /\ ui = "idle"
    /\ edits < EditBudget
    /\ \E a \in {Len(doc) - 1}, h \in {Len(doc)} :
          /\ selection' = [anchor |-> a, head |-> h]
          /\ cursor' = offsetToPos(doc, h)
    /\ selection' # selection
    /\ notice' = NoNotice
    /\ request' = NoRequest
    /\ UNCHANGED <<editorFrame, prev, doc, existing, editorVars, adding,
                   lastUsedColor>>

NextColor ==
    \/ ChangeDefaultColor
    \/ SelectText
    \/ HandleAddCommand
    \/ SubmitAdd
    \/ CancelAdd
    \/ HandleEditCommand
    \/ SubmitModal
    \/ CancelModal

SpecColor == InitColor /\ [][NextColor]_vars

\* A step that opens the add dialog, submits it, changes the default color.
OpensAddDialog == adding'.open /\ ~adding.open
SubmitsAddDialog == adding.open /\ ~adding'.open /\ edits' = edits + 1
ChangesDefaultColor == settings' # settings

\* C28: remembered color: the color initially selected in an add dialog is
\* the forced color when the command gives one, the remembered color
\* otherwise; the remembered color is the default color at load, becomes
\* the color of an add dialog when it is submitted and the new default
\* color when the setting is changed, and no other step changes it (not a
\* cancelled dialog, not an edit dialog).
C28_RememberedColor ==
    /\ lastUsedColor = settings.defaultColor
    /\ [][ /\ OpensAddDialog =>
                adding'.initialColor =
                    (IF request'.forced # NullColor THEN request'.forced
                     ELSE lastUsedColor)
           /\ lastUsedColor' =
                 (IF SubmitsAddDialog THEN lastOp'.ann.color
                  ELSE IF ChangesDefaultColor THEN settings'.defaultColor
                  ELSE lastUsedColor)
         ]_vars

\* C28 witness: an add dialog opened without a forced color starts from the
\* color of the add dialog submitted before it, which is not the default
\* color.
C28_Witness ==
    /\ adding.open
    /\ request.forced = NullColor
    /\ lastOp.kind = "add"
    /\ edits = 1
    /\ adding.initialColor = lastOp.ann.color
    /\ lastOp.ann.color # settings.defaultColor

(***************************************************************************)
(* Insert-then-delete specification: a text is selected, the add command   *)
(* wraps it, the cursor is put somewhere and the delete command is run.    *)
(***************************************************************************)

RoundTripDocs ==
    { <<"a">> \o CLOSE_LIT \o <<"b">>,
      MARKER_A \o <<"w">> }

InitRoundTrip ==
    /\ doc \in RoundTripDocs
    /\ \E a \in SelectionStops(doc), h \in SelectionStops(doc) :
          /\ a < h
          /\ ~includes(SubSeq(doc, a + 1, h), NESTED_LIT)
          /\ selection = [anchor |-> a, head |-> h]
          /\ cursor = offsetToPos(doc, h)
    /\ lastUsedColor = DEFAULT_COLOR
    /\ existing = NoAnnotation
    /\ matches = <<>>
    /\ ui = "idle"
    /\ modal = NoAnnotation
    /\ lastOp = NoOp
    /\ edits = 0
    /\ adding = NoAdding
    /\ notice = NoNotice
    /\ request = NoRequest
    /\ prev = NoString
    /\ normChanged = FALSE /\ passes = 0 /\ canonical = FALSE
    /\ pc = "session"
    /\ CodecIdle
    /\ decorations = <<>>
    /\ BulkIdle
    /\ PluginIdle

\* The closed interval of the replacement the last add inserted, in doc.
InsertedStart == posToOffset(prev, lastOp.ann.from)
InsertedEnd == InsertedStart + Len(lastOp.replacement)

\* After the add, the user puts the cursor at an offset of the closed
\* interval of the inserted replacement (submit left it at its end).
PutCursor ==
    /\ ui = "idle"
    /\ lastOp.kind = "add"
    /\ request.cmd = "add"
    /\ \E o \in SelectionStops(doc) :
          /\ o >= InsertedStart
          /\ o <= InsertedEnd
          /\ cursor' = offsetToPos(doc, o)
          /\ selection' = [anchor |-> o, head |-> o]
    /\ cursor' # cursor
    /\ notice' = NoNotice
    /\ request' = NoRequest
    /\ UNCHANGED <<editorFrame, prev, doc, existing, editorVars, adding,
                   lastUsedColor>>

NextRoundTrip ==
    \/ HandleAddCommand
    \/ SubmitAdd
    \/ CancelAdd
    \/ PutCursor
    \/ HandleDeleteCommand

SpecRoundTrip == InitRoundTrip /\ [][NextRoundTrip]_vars

\* C26: insert followed by delete restores the document: when the last
\* replacement was an add and the delete command is run with the cursor at
\* an offset of the closed interval of the inserted replacement, the
\* document after the delete is the document before the add.
C26_InsertThenDelete ==
    [][ ( /\ lastOp.kind = "add"
          /\ request'.cmd = "delete"
          /\ posToOffset(doc, cursor) >= InsertedStart
          /\ posToOffset(doc, cursor) <= InsertedEnd )
        => doc' = prev ]_vars

(***************************************************************************)
(* Stale range specification: while the context menu or the edit dialog is *)
(* open, the document is changed from outside the plugin (a sync, another  *)
(* plugin); then the user's reply arrives.                                 *)
(***************************************************************************)

StaleDocs ==
    { MARKER_A,
      Flatten(<< <<"x">>, MARKER_B, <<"x">> >>) }

InitStale ==
    /\ doc \in StaleDocs
    /\ \E o \in SelectionStops(doc) :
          /\ cursor = offsetToPos(doc, o)
          /\ selection = [anchor |-> o, head |-> o]
    /\ existing = NoAnnotation
    /\ matches = <<>>
    /\ ui = "idle"
    /\ modal = NoAnnotation
    /\ lastOp = NoOp
    /\ edits = 0
    /\ adding = NoAdding
    /\ notice = NoNotice
    /\ lastUsedColor = DEFAULT_COLOR
    /\ request = NoRequest
    /\ prev = NoString
    /\ normChanged = FALSE /\ passes = 0 /\ canonical = FALSE
    /\ pc = "session"
    /\ CodecIdle
    /\ decorations = <<>>
    /\ BulkIdle
    /\ PluginIdle

\* A character is inserted at the start of the document while the menu or
\* the edit dialog is open; the host moves the cursor with the text.
DocChangedOutside ==
    /\ ui \in {"menu", "modal"}
    /\ edits < MaxEdits
    /\ doc' = TYPED \o doc
    /\ \E o \in CursorAfter(posToOffset(doc, cursor), 0, 0, Len(TYPED)) :
          /\ cursor' = offsetToPos(doc', o)
          /\ selection' = [anchor |-> o, head |-> o]
    /\ edits' = edits + 1
    /\ UNCHANGED <<editorFrame, prev, existing, ui, modal, lastOp, adding, notice,
                   lastUsedColor, request>>

NextStale ==
    \/ HandleContextMenu
    \/ DismissMenu
    \/ HandleEditCommand
    \/ SubmitModal
    \/ CancelModal
    \/ ChangeColor
    \/ HandleDeleteCommand
    \/ DocChangedOutside

SpecStale == InitStale /\ [][NextStale]_vars

\* C25: every replacement is applied to a live marker span: after an edit,
\* a delete or a color change, the range that was replaced is the span
\* [start, end) of a marker matched in the text as it was when the
\* replacement was applied, also when the text changed after the marker was
\* resolved.
C25_LiveSpan ==
    lastOp.kind \in {"edit", "delete", "color"} =>
        \E i \in 1..Len(ScanSpans(prev, 0)) :
            /\ ScanSpans(prev, 0)[i].start = OpStart
            /\ ScanSpans(prev, 0)[i].end = OpEnd

====
